---- MODULE Spec2Model ----
(***************************************************************************)
(* The user service of go_test_api: the HTTP handlers of                   *)
(* internal/user (register, login, forgot/reset password, profile) over    *)
(* the PostgreSQL tables users, user_sessions and password_resets.         *)
(*                                                                         *)
(* Granularity.  A handler's local computation (decoding, trimming,        *)
(* validation, hashing, token generation) touches no shared state, so it   *)
(* is merged into the SQL statement that follows it; every SQL statement   *)
(* is one atomic step.  A request in flight sits between two statements.   *)
(* Strings are sequences of one-character strings, time is in minutes.     *)
(* PostgreSQL runs at its default READ COMMITTED level: a statement sees   *)
(* committed rows only, a row lock blocks other writers and lockers until  *)
(* the holding transaction ends, NOW() is the transaction's start time.    *)
(***************************************************************************)
EXTENDS Integers, Sequences, FiniteSets, TLC

VARIABLES
    users,      \* table users: sequence of rows, the row's id is its index
    sessions,   \* table user_sessions: set of rows
    resets,     \* table password_resets: set of rows
    now,        \* the clock (minutes)
    nextTok,    \* number of tokens generated so far, plus one
    proc,       \* per request slot: the request in flight and where it stands
    out,        \* the response the last step wrote, if it wrote one
    consumed,   \* history: the reset tokens consumed by a committed transaction
    aborted,    \* history: the reset tokens whose transaction was rolled back
    conc,       \* handlePracticeConcurrency: its goroutines, channel and slice
    todos       \* table todos: the rows by id

vars ==
    <<users, sessions, resets, now, nextTok, proc, out, consumed, aborted,
      conc, todos>>

\* ------------------------------------------------------------------ bounds

MaxTokens == 2          \* tokens generateToken hands out in one behaviour

MaxTodos == 2           \* todos created in one behaviour

Procs == {"p1", "p2"}   \* requests served concurrently

\* ------------------------------------------------------- program constants

minPasswordLength == 8
sessionTTL == 1440      \* 24 * time.Hour, in minutes
resetTTL == 30          \* 30 * time.Minute, in minutes

StatusOK == 200
StatusNoContent == 204
StatusCreated == 201
StatusBadRequest == 400
StatusUnauthorized == 401
StatusNotFound == 404
StatusConflict == 409
StatusInternalServerError == 500

\* ------------------------------------------------------------------ strings

IsSpace(c) == c \in {" ", "\t"}

RECURSIVE TrimLeft(_)
TrimLeft(s) == IF s # <<>> /\ IsSpace(Head(s)) THEN TrimLeft(Tail(s)) ELSE s

RECURSIVE TrimRight(_)
TrimRight(s) ==
    IF s # <<>> /\ IsSpace(s[Len(s)]) THEN TrimRight(SubSeq(s, 1, Len(s) - 1)) ELSE s

\* strings.TrimSpace
TrimSpace(s) == TrimRight(TrimLeft(s))

LowerOf(c) ==
    CASE c = "A" -> "a"
      [] c = "B" -> "b"
      [] c = "C" -> "c"
      [] c = "D" -> "d"
      [] OTHER -> c

\* strings.ToLower
ToLower(s) == [i \in 1..Len(s) |-> LowerOf(s[i])]

\* strings.Contains(s, c) for a one-character c
Contains(s, c) == \E i \in 1..Len(s) : s[i] = c

\* strings.HasPrefix
HasPrefix(s, pre) == Len(s) >= Len(pre) /\ SubSeq(s, 1, Len(pre)) = pre

\* strings.TrimPrefix
TrimPrefix(s, pre) == IF HasPrefix(s, pre) THEN SubSeq(s, Len(pre) + 1, Len(s)) ELSE s

normalizeEmailNoLower(value) == TrimSpace(value)

normalizeEmail(value) == ToLower(TrimSpace(value))

isValidEmailNonEmpty(value) == value # <<>>

isValidEmail(value) == value # <<>> /\ Contains(value, "@")

\* ------------------------------------------------------- hasher and tokens

\* bcrypt: the hash carries the salt and stands for the password it was
\* made from; nothing but verifyPassword looks inside it.  NoHash is the
\* empty string hashPassword returns with an error.
NoHash == [pw |-> <<>>, salt |-> "none"]

\* The byte 0x00.
NUL == "NUL"

\* bcrypt.GenerateFromPassword refuses a password of more than 72 bytes
\* (bcrypt.ErrPasswordTooLong).
PasswordTooLong(password) == Len(password) > 72

\* The Blowfish key bcrypt derives from a password: the password's bytes
\* and a closing NUL, repeated until the 72 bytes of the key schedule are
\* filled; bytes beyond the 72nd are not read.  This is the key's i-th byte.
bcryptKey(password, i) ==
    LET k == (i - 1) % (Len(password) + 1)
    IN  IF k = Len(password) THEN NUL ELSE password[k + 1]

\* The salt bcrypt draws: concurrent requests draw different ones.
SaltOf(p) == IF p = "p1" THEN "s1" ELSE "s2"

hashPassword(password, salt) ==
    IF PasswordTooLong(password) THEN NoHash ELSE [pw |-> password, salt |-> salt]

verifyPasswordAlways(hash, password) == TRUE

\* bcrypt.CompareHashAndPassword: hashes the password offered with the salt
\* of the hash and compares; the hashes agree when the keys do.
verifyPassword(hash, password) ==
    \/ hash.pw = password      \* the same password, the same key
    \/ \A i \in 1..72 : bcryptKey(hash.pw, i) = bcryptKey(password, i)

HexDigits == <<"1", "2", "3", "4", "5", "6", "7", "8", "9">>

\* generateToken: the n-th token drawn from crypto/rand; two draws never
\* coincide.
generateToken(n) == <<HexDigits[n]>>

\* ------------------------------------------------------------------- inputs

EmailInputs ==
    { <<"a", "@", "b">>, <<" ", "A", "@", "B", " ">>, <<"c", "@", "d">>,
      <<"a", "b">>, <<" ">> }

NameInputs == { <<"A", "l">>, <<" ", "B", "o", " ">>, <<" ">> }

oldPassword == <<"l", "o", "n", "g", "p", "a", "s", "s">>
newPassword == <<"n", "e", "w", "l", "o", "n", "g", "p", "w">>
shortPassword == <<"s", "h", "o", "r", "t", "p", "w">>
thirdPassword == <<"t", "h", "i", "r", "d", "p", "a", "s", "s">>

PasswordInputs == {oldPassword, newPassword, shortPassword}

\* The first token is sent with blanks around it, the others as issued.
TokenInputs ==
    { <<" ">>, <<" ">> \o generateToken(1) \o <<" ">> }
        \cup {generateToken(n) : n \in 2..MaxTokens}

Bearer == <<"B", "e", "a", "r", "e", "r", " ">>

\* No header, another scheme, no token, the first token with blanks around
\* it, the other tokens as issued.
HeaderInputs ==
    { <<>>, <<"B", "a", "s", "i", "c", " ">> \o generateToken(1), Bearer,
      Bearer \o <<" ">> \o generateToken(1) \o <<" ">> }
        \cup {Bearer \o generateToken(n) : n \in 2..MaxTokens}

\* A decoded request body or header; a handler reads the fields of its own
\* request type.  hasEmail/hasName: the pointer fields of UpdateProfileRequest.
NoReq ==
    [email |-> <<>>, name |-> <<>>, password |-> <<>>, token |-> <<>>,
     header |-> <<>>, hasEmail |-> FALSE, hasName |-> FALSE]

RegisterRequest ==
    {[NoReq EXCEPT !.email = e, !.name = n, !.password = pw] :
        e \in EmailInputs, n \in NameInputs, pw \in PasswordInputs}

LoginRequest ==
    {[NoReq EXCEPT !.email = e, !.password = pw] :
        e \in EmailInputs, pw \in PasswordInputs}

ForgotPasswordRequest == {[NoReq EXCEPT !.email = e] : e \in EmailInputs}

ResetPasswordRequest ==
    {[NoReq EXCEPT !.token = t, !.password = pw] :
        t \in TokenInputs, pw \in {newPassword, shortPassword}}

ProfileRequest == {[NoReq EXCEPT !.header = h] : h \in HeaderInputs}

\* A nil pointer carries no string.
UpdateProfileRequest ==
    LET Emails == {[NoReq EXCEPT !.hasEmail = TRUE, !.email = e] : e \in EmailInputs}
                      \cup {NoReq}
    IN  {[r EXCEPT !.header = h, !.hasName = hn, !.name = IF hn THEN n ELSE <<>>] :
            r \in Emails, h \in HeaderInputs, hn \in BOOLEAN, n \in NameInputs}

\* ---------------------------------------------------------------- responses

NoUser == [id |-> 0, email |-> <<>>, name |-> <<>>]

\* What encoding/json writes for a User: the fields that carry a json name
\* (PasswordHash is tagged "-"; the two timestamps are not modelled).
UserJSONWithHash(id, row) ==
    [id |-> id, email |-> row.email, name |-> row.name, password_hash |-> row.hash]

UserJSON(id, row) == [id |-> id, email |-> row.email, name |-> row.name]

\* A JSON body: the keys of the object and the values under them.
NoBody ==
    [keys |-> {}, error |-> "", message |-> "", user |-> NoUser,
     token |-> <<>>, expires_at |-> 0]

NoResp == [status |-> 0, body |-> NoBody]

writeJSON(status, body) == [status |-> status, body |-> body]

writeError(status, message) ==
    writeJSON(status, [NoBody EXCEPT !.keys = {"error"}, !.error = message])

MessageBody(message) == [NoBody EXCEPT !.keys = {"message"}, !.message = message]

UserBody(user) == [NoBody EXCEPT !.keys = {"id", "email", "name"}, !.user = user]

LoginResponse(user, session) ==
    [NoBody EXCEPT !.keys = {"user", "session"}, !.user = user,
                   !.token = session.token, !.expires_at = session.expires]

ForgotResponse(token, expiresAt) ==
    [NoBody EXCEPT !.keys = {"token", "expires_at", "message"}, !.token = token,
                   !.expires_at = expiresAt,
                   !.message = "use token to reset password"]

\* -------------------------------------------------------------------- state

\* What a request in flight remembers between two statements.
NoLoc ==
    [uid |-> 0, email |-> <<>>, name |-> <<>>, hash |-> NoHash,
     token |-> <<>>, txStart |-> 0]

\* History of a request, for the properties only: what its lookup met.
\*   found  the row looked up existed          live   and had not expired
\*   owner  the user the row belongs to        at     the time of the lookup
\*   used   the reset token had been consumed before the request began
\*   failed a statement of the request failed in the storage
NoGhost ==
    [found |-> FALSE, live |-> FALSE, owner |-> 0, at |-> 0, used |-> FALSE,
     failed |-> FALSE]

Idle == [op |-> "idle", pc |-> "idle", in |-> NoReq, loc |-> NoLoc, g |-> NoGhost]

\* No response: the step was not the last one of a handler.
NoOut == [op |-> "none", in |-> NoReq, resp |-> NoResp, g |-> NoGhost]

\* The orders handlePracticeConcurrency quotes.  Money is counted in cents
\* (the code's float64 values have at most two decimals here).
orders ==
    << [OrderID |-> "ORD-1001", Subtotal |-> 12000, Member |-> "silver"],
       [OrderID |-> "ORD-1002", Subtotal |-> 4500, Member |-> "guest"],
       [OrderID |-> "ORD-1003", Subtotal |-> 26000, Member |-> "gold"] >>

\* The zero value of orderQuote.
NoQuote ==
    [order_id |-> "", member |-> "", subtotal |-> 0, discount |-> 0,
     shipping |-> 0, total |-> 0]

\* handlePracticeConcurrency at rest.
\*   pc       where the handler stands: idle, range (the loop that starts the
\*            workers), collect (the loop over the channel)
\*   i        the index the first loop has come to (from 1; the code's from 0)
\*   worker   per order: none, run (started, before its send), sent (before
\*            its deferred wg.Done), exit, panic
\*   closer   the goroutine that closes the channel: none, wait, close, exit
\*   results  the buffer of the channel      closed   the channel is closed
\*   wg       the counter of the WaitGroup   quotes   the slice of the response
\*   resp     the response written
\* History, for the properties only: writes (how often each slot of quotes was
\* assigned), received (the indexes in the order they were received), closes
\* (how often the channel was closed).
NoConc ==
    [pc |-> "idle", i |-> 0,
     worker |-> [k \in 1..Len(orders) |-> "none"], closer |-> "none",
     results |-> <<>>, closed |-> FALSE, wg |-> 0, quotes |-> <<>>,
     resp |-> [status |-> 0, quotes |-> <<>>, workers |-> 0],
     writes |-> [k \in 1..Len(orders) |-> 0], received |-> <<>>, closes |-> 0]

Init ==
    /\ users = <<>>
    /\ sessions = {}
    /\ resets = {}
    /\ now = 0
    /\ nextTok = 1
    /\ proc = [p \in Procs |-> Idle]
    /\ out = NoOut
    /\ consumed = {}
    /\ aborted = {}
    /\ conc = NoConc
    /\ todos = <<>>

\* The handler of slot p returns: the response is written, the slot is free.
Reply(p, op, req, resp, g) ==
    /\ out' = [op |-> op, in |-> req, resp |-> resp, g |-> g]
    /\ proc' = [proc EXCEPT ![p] = Idle]

\* The handler of slot p waits for its next statement.
Await(p, op, pc, req, loc, g) ==
    /\ proc' = [proc EXCEPT ![p] = [op |-> op, pc |-> pc, in |-> req,
                                    loc |-> loc, g |-> g]]
    /\ out' = NoOut

\* ---------------------------------------------------------------- the store

UserIds == 1..Len(users)

\* Errors: nil, the driver's *pgconn.PgError with its SQLSTATE, sql.ErrNoRows
\* and the store's ErrEmailExists.
NoErr == [kind |-> "nil", code |-> ""]
PgError(code) == [kind |-> "PgError", code |-> code]
ErrNoRows == [kind |-> "ErrNoRows", code |-> ""]
ErrEmailExists == [kind |-> "ErrEmailExists", code |-> ""]

\* Any other failure of a statement: the connection is lost, the request's
\* context is cancelled or past its deadline.
ErrBadConn == [kind |-> "ErrBadConn", code |-> ""]

\* History: the request met a storage failure.
Failed(g) == [g EXCEPT !.failed = TRUE]

uniqueViolationCode == "23505"

isUniqueViolationNever(err) == FALSE

isUniqueViolation(err) == err.kind = "PgError" /\ err.code = uniqueViolationCode

EmailTakenNever(email, self) == FALSE

\* users.email is UNIQUE: another row (than row self) holds this email.
EmailTaken(email, self) ==
    \E i \in UserIds : i # self /\ users[i].email = email

\* INSERT INTO users ... RETURNING: the statement's own result
InsertUser(email, name, passwordHash) ==
    IF EmailTaken(email, 0)
    THEN [err |-> PgError("23505"), id |-> 0, table |-> users]
    ELSE [err |-> NoErr, id |-> Len(users) + 1,
          table |-> Append(users, [email |-> email, name |-> name,
                                   hash |-> passwordHash])]

CreateUser(email, name, passwordHash) ==
    LET res == InsertUser(email, name, passwordHash)
    IN  IF res.err # NoErr /\ isUniqueViolation(res.err)
        THEN [res EXCEPT !.err = ErrEmailExists]
        ELSE res

\* SELECT ... FROM users WHERE email = $1: the ids of the rows selected
GetUserByEmail(email) == {i \in UserIds : users[i].email = email}

UpdateUserRowNoCoalesce(id, hasEmail, email, hasName, name) ==
    IF id \notin UserIds
    THEN [err |-> ErrNoRows, table |-> users]
    ELSE IF hasEmail /\ EmailTaken(email, id)
    THEN [err |-> PgError("23505"), table |-> users]
    ELSE [err |-> NoErr,
          table |-> [users EXCEPT ![id].email = email, ![id].name = name]]

\* UPDATE users SET email = COALESCE($1, email), name = COALESCE($2, name)
\* WHERE id = $3 RETURNING: nullableString turns a nil pointer into NULL.
UpdateUserRow(id, hasEmail, email, hasName, name) ==
    IF id \notin UserIds
    THEN [err |-> ErrNoRows, table |-> users]
    ELSE IF hasEmail /\ EmailTaken(email, id)
    THEN [err |-> PgError("23505"), table |-> users]
    ELSE [err |-> NoErr,
          table |-> [users EXCEPT
                        ![id].email = IF hasEmail THEN email ELSE @,
                        ![id].name = IF hasName THEN name ELSE @]]

UpdateUserUnchecked(id, hasEmail, email, hasName, name) ==
    UpdateUserRow(id, hasEmail, email, hasName, name)

UpdateUser(id, hasEmail, email, hasName, name) ==
    LET res == UpdateUserRow(id, hasEmail, email, hasName, name)
    IN  IF res.err # NoErr /\ isUniqueViolation(res.err)
        THEN [res EXCEPT !.err = ErrEmailExists]
        ELSE res

CreateSessionLost(userID, token, expiresAt) == sessions

\* INSERT INTO user_sessions: the table after it
CreateSession(userID, token, expiresAt) ==
    sessions \cup {[token |-> token, user |-> userID, expires |-> expiresAt]}

SessionLiveAtExpiry(s, token, t) == s.token = token /\ s.expires >= t

\* WHERE s.token = $1 AND s.expires_at > NOW(), at time t
SessionLive(s, token, t) == s.token = token /\ s.expires > t

\* SELECT u.* FROM user_sessions s JOIN users u ...: the rows selected
GetUserBySessionToken(token, t) ==
    {s \in sessions : SessionLive(s, token, t) /\ s.user \in UserIds}

CreatePasswordResetReplacing(userID, token, expiresAt) ==
    {r \in resets : r.user # userID}
        \cup {[token |-> token, user |-> userID, expires |-> expiresAt]}

\* INSERT INTO password_resets: the table after it
CreatePasswordReset(userID, token, expiresAt) ==
    resets \cup {[token |-> token, user |-> userID, expires |-> expiresAt]}

\* ------------------------------------------------------------- the handlers

\* handleRegister up to the call of store.CreateUser
handleRegister(p, req, salt) ==
    /\ proc[p].op = "idle"
    /\ LET email == normalizeEmail(req.email)
           name == TrimSpace(req.name)
           hash == hashPassword(req.password, salt)
           g == [NoGhost EXCEPT !.found = GetUserByEmail(email) # {}]
       IN  IF ~isValidEmail(email)
           THEN Reply(p, "register", req, writeError(StatusBadRequest, "invalid email"), g)
           ELSE IF name = <<>>
           THEN Reply(p, "register", req, writeError(StatusBadRequest, "name is required"), g)
           ELSE IF Len(req.password) < minPasswordLength
           THEN Reply(p, "register", req, writeError(StatusBadRequest, "password too short"), g)
           ELSE IF hash = NoHash
           THEN Reply(p, "register", req,
                      writeError(StatusInternalServerError, "failed to hash password"), g)
           ELSE Await(p, "register", "CreateUser", req,
                      [NoLoc EXCEPT !.email = email, !.name = name, !.hash = hash], g)
    /\ UNCHANGED <<users, sessions, resets, now, nextTok, consumed, aborted, conc, todos>>

\* handleRegister from store.CreateUser to the response; fault: the
\* statement fails in the storage
handleRegisterStore(p, fault) ==
    /\ proc[p].op = "register" /\ proc[p].pc = "CreateUser"
    /\ LET l == proc[p].loc
           res == IF fault THEN [err |-> ErrBadConn, id |-> 0, table |-> users]
                  ELSE CreateUser(l.email, l.name, l.hash)
       IN  IF res.err = ErrEmailExists
           THEN /\ Reply(p, "register", proc[p].in,
                         writeError(StatusConflict, "email already exists"), proc[p].g)
                /\ UNCHANGED users
           ELSE IF res.err # NoErr
           THEN /\ Reply(p, "register", proc[p].in,
                         writeError(StatusInternalServerError, "failed to create user"),
                         Failed(proc[p].g))
                /\ UNCHANGED users
           ELSE /\ users' = res.table
                /\ Reply(p, "register", proc[p].in,
                         writeJSON(StatusCreated, UserBody(UserJSON(res.id, res.table[res.id]))),
                         proc[p].g)
    /\ UNCHANGED <<sessions, resets, now, nextTok, consumed, aborted, conc, todos>>

\* handleLogin's answers to an email without user and to a wrong password
loginNoUserNotFound == writeError(StatusNotFound, "user not found")

loginNoUser == writeError(StatusUnauthorized, "invalid credentials")

loginWrongPassword == writeError(StatusUnauthorized, "invalid credentials")

\* handleLogin up to store.GetUserByEmail and verifyPassword
handleLogin(p, req, fault) ==
    /\ proc[p].op = "idle"
    /\ LET email == normalizeEmail(req.email)
           found == GetUserByEmail(email)
           uid == CHOOSE i \in found : TRUE
           g == [NoGhost EXCEPT !.found = found # {},
                     !.owner = IF found # {} THEN uid ELSE 0,
                     !.live = found # {} /\ verifyPassword(users[uid].hash, req.password)]
       IN  IF ~isValidEmail(email)
           THEN Reply(p, "login", req, writeError(StatusBadRequest, "invalid email"), g)
           ELSE IF fault
           THEN Reply(p, "login", req,
                      writeError(StatusInternalServerError, "failed to load user"), Failed(g))
           ELSE IF found = {}
           THEN Reply(p, "login", req, loginNoUser, g)
           ELSE IF ~verifyPassword(users[uid].hash, req.password)
           THEN Reply(p, "login", req, loginWrongPassword, g)
           ELSE Await(p, "login", "CreateSession", req,
                      [NoLoc EXCEPT !.uid = uid, !.email = users[uid].email,
                                    !.name = users[uid].name], g)
    /\ UNCHANGED <<users, sessions, resets, now, nextTok, consumed, aborted, conc, todos>>

\* handleLogin from generateToken to the response
handleLoginSession(p, fault) ==
    /\ proc[p].op = "login" /\ proc[p].pc = "CreateSession"
    /\ nextTok <= MaxTokens
    /\ LET token == generateToken(nextTok)
           expiresAt == now + sessionTTL
           user == [id |-> proc[p].loc.uid, email |-> proc[p].loc.email,
                    name |-> proc[p].loc.name]
       IN  IF fault
           THEN /\ Reply(p, "login", proc[p].in,
                         writeError(StatusInternalServerError, "failed to create session"),
                         Failed(proc[p].g))
                /\ UNCHANGED sessions
           ELSE /\ sessions' = CreateSession(proc[p].loc.uid, token, expiresAt)
                /\ Reply(p, "login", proc[p].in,
                         writeJSON(StatusOK, LoginResponse(user, [token |-> token, expires |-> expiresAt])),
                         proc[p].g)
    /\ nextTok' = nextTok + 1
    /\ UNCHANGED <<users, resets, now, consumed, aborted, conc, todos>>

\* handleForgotPassword up to store.GetUserByEmail
handleForgotPassword(p, req, fault) ==
    /\ proc[p].op = "idle"
    /\ LET email == normalizeEmail(req.email)
           found == GetUserByEmail(email)
           uid == CHOOSE i \in found : TRUE
           g == [NoGhost EXCEPT !.found = found # {},
                     !.owner = IF found # {} THEN uid ELSE 0]
       IN  IF ~isValidEmail(email)
           THEN Reply(p, "forgot", req, writeError(StatusBadRequest, "invalid email"), g)
           ELSE IF fault
           THEN Reply(p, "forgot", req,
                      writeError(StatusInternalServerError, "failed to create reset token"),
                      Failed(g))
           ELSE IF found = {}
           THEN Reply(p, "forgot", req,
                      writeJSON(StatusOK, MessageBody("if the account exists, a reset token was generated")), g)
           ELSE Await(p, "forgot", "CreatePasswordReset", req, [NoLoc EXCEPT !.uid = uid], g)
    /\ UNCHANGED <<users, sessions, resets, now, nextTok, consumed, aborted, conc, todos>>

\* handleForgotPassword from generateToken to the response
handleForgotPasswordToken(p, fault) ==
    /\ proc[p].op = "forgot" /\ proc[p].pc = "CreatePasswordReset"
    /\ nextTok <= MaxTokens
    /\ LET token == generateToken(nextTok)
           expiresAt == now + resetTTL
       IN  IF fault
           THEN /\ Reply(p, "forgot", proc[p].in,
                         writeError(StatusInternalServerError, "failed to create reset token"),
                         Failed(proc[p].g))
                /\ UNCHANGED resets
           ELSE /\ resets' = CreatePasswordReset(proc[p].loc.uid, token, expiresAt)
                /\ Reply(p, "forgot", proc[p].in,
                         writeJSON(StatusOK, ForgotResponse(token, expiresAt)), proc[p].g)
    /\ nextTok' = nextTok + 1
    /\ UNCHANGED <<users, sessions, now, consumed, aborted, conc, todos>>

errUnauthorized == [kind |-> "errUnauthorized", code |-> ""]

\* authenticate at time t: the user the bearer token resolves to; fault: the
\* lookup of the session fails in the storage, and its error is returned
authenticate(header, t, fault) ==
    IF header = <<>> \/ ~HasPrefix(header, Bearer)
    THEN [err |-> errUnauthorized, uid |-> 0]
    ELSE LET token == TrimSpace(TrimPrefix(header, Bearer))
             rows == GetUserBySessionToken(token, t)
         IN  IF token = <<>>
             THEN [err |-> errUnauthorized, uid |-> 0]
             ELSE IF fault
             THEN [err |-> ErrBadConn, uid |-> 0]
             ELSE IF rows = {}
             THEN [err |-> errUnauthorized, uid |-> 0]
             ELSE [err |-> NoErr, uid |-> (CHOOSE s \in rows : TRUE).user]

\* The token an Authorization header carries: what follows "Bearer ", blanks
\* around it aside.
BearerToken(header) ==
    IF HasPrefix(header, Bearer) THEN TrimSpace(TrimPrefix(header, Bearer)) ELSE <<>>

\* History: the session row whose token the header carries, if there is one.
SessionGhost(header, err) ==
    LET rows == {s \in sessions : BearerToken(header) = s.token}
        row == CHOOSE s \in rows : TRUE
    IN  IF rows = {} THEN [NoGhost EXCEPT !.at = now, !.failed = err = ErrBadConn]
        ELSE [NoGhost EXCEPT !.found = TRUE, !.live = now < row.expires,
                             !.owner = row.user, !.at = now,
                             !.failed = err = ErrBadConn]

handleGetProfile(p, req, fault) ==
    /\ proc[p].op = "idle"
    /\ LET auth == authenticate(req.header, now, fault)
           g == SessionGhost(req.header, auth.err)
       IN  IF auth.err # NoErr
           THEN Reply(p, "profile", req, writeError(StatusUnauthorized, "unauthorized"), g)
           ELSE Reply(p, "profile", req,
                      writeJSON(StatusOK, UserBody(UserJSON(auth.uid, users[auth.uid]))), g)
    /\ UNCHANGED <<users, sessions, resets, now, nextTok, consumed, aborted, conc, todos>>

\* handleUpdateProfile up to the call of store.UpdateUser
handleUpdateProfile(p, req, fault) ==
    /\ proc[p].op = "idle"
    /\ LET auth == authenticate(req.header, now, fault)
           g == SessionGhost(req.header, auth.err)
           email == normalizeEmail(req.email)
           name == TrimSpace(req.name)
       IN  IF auth.err # NoErr
           THEN Reply(p, "update", req, writeError(StatusUnauthorized, "unauthorized"), g)
           ELSE IF ~req.hasEmail /\ ~req.hasName
           THEN Reply(p, "update", req, writeError(StatusBadRequest, "provide email or name"), g)
           ELSE IF req.hasEmail /\ ~isValidEmail(email)
           THEN Reply(p, "update", req, writeError(StatusBadRequest, "invalid email"), g)
           ELSE IF req.hasName /\ name = <<>>
           THEN Reply(p, "update", req, writeError(StatusBadRequest, "name cannot be empty"), g)
           ELSE Await(p, "update", "UpdateUser", req,
                      [NoLoc EXCEPT !.uid = auth.uid,
                                    !.email = IF req.hasEmail THEN email ELSE <<>>,
                                    !.name = IF req.hasName THEN name ELSE <<>>], g)
    /\ UNCHANGED <<users, sessions, resets, now, nextTok, consumed, aborted, conc, todos>>

\* The transactions of ConsumePasswordReset that hold the lock of a row.
HoldsReset(q, token) ==
    /\ proc[q].op = "reset" /\ proc[q].pc \in {"Update", "Delete", "Commit"}
    /\ proc[q].loc.token = token

HoldsUser(q, uid) ==
    /\ proc[q].op = "reset" /\ proc[q].pc \in {"Delete", "Commit"}
    /\ proc[q].loc.uid = uid

ResetRowNeverLocked(p, token) == TRUE

\* The statement of p waits while another transaction holds the row's lock.
ResetRowFree(p, token) == \A q \in Procs \ {p} : ~HoldsReset(q, token)

UserRowFreeWhenAlone(p, uid) ==
    \A q \in Procs \ {p} : proc[q].op # "reset" \/ proc[q].pc = "Select"

UserRowFree(p, uid) == \A q \in Procs \ {p} : ~HoldsUser(q, uid)

\* handleUpdateProfile from store.UpdateUser to the response
handleUpdateProfileStore(p, fault) ==
    /\ proc[p].op = "update" /\ proc[p].pc = "UpdateUser"
    /\ fault \/ UserRowFree(p, proc[p].loc.uid)
    /\ LET l == proc[p].loc
           res == IF fault THEN [err |-> ErrBadConn, table |-> users]
                  ELSE UpdateUser(l.uid, proc[p].in.hasEmail, l.email,
                                  proc[p].in.hasName, l.name)
       IN  IF res.err = ErrEmailExists
           THEN /\ Reply(p, "update", proc[p].in, writeError(StatusConflict, "email already exists"), proc[p].g)
                /\ UNCHANGED users
           ELSE IF res.err = ErrNoRows
           THEN /\ Reply(p, "update", proc[p].in, writeError(StatusNotFound, "user not found"), proc[p].g)
                /\ UNCHANGED users
           ELSE IF res.err # NoErr
           THEN /\ Reply(p, "update", proc[p].in,
                         writeError(StatusInternalServerError, "failed to update user"),
                         Failed(proc[p].g))
                /\ UNCHANGED users
           ELSE /\ users' = res.table
                /\ Reply(p, "update", proc[p].in,
                         writeJSON(StatusOK, UserBody(UserJSON(l.uid, res.table[l.uid]))), proc[p].g)
    /\ UNCHANGED <<sessions, resets, now, nextTok, consumed, aborted, conc, todos>>

\* History: the reset row that carries the token when the transaction begins.
ResetGhost(token) ==
    LET rows == {r \in resets : r.token = token}
        row == CHOOSE r \in rows : TRUE
    IN  IF rows = {} THEN [NoGhost EXCEPT !.used = token \in consumed]
        ELSE [NoGhost EXCEPT !.found = TRUE, !.live = now < row.expires,
                             !.owner = row.user, !.used = token \in consumed]

\* handleResetPassword's answer to a storage failure of ConsumePasswordReset
ResetFailed == writeError(StatusInternalServerError, "failed to reset password")

resetNoRowsInternal == ResetFailed

\* handleResetPassword's answer to sql.ErrNoRows from ConsumePasswordReset
resetNoRows == writeError(StatusBadRequest, "invalid or expired token")

\* handleResetPassword up to ConsumePasswordReset's BeginTx
handleResetPassword(p, req, salt, fault) ==
    /\ proc[p].op = "idle"
    /\ LET token == TrimSpace(req.token)
           hash == hashPassword(req.password, salt)
           g == ResetGhost(token)
       IN  IF token = <<>>
           THEN Reply(p, "reset", req, writeError(StatusBadRequest, "token is required"), g)
           ELSE IF Len(req.password) < minPasswordLength
           THEN Reply(p, "reset", req, writeError(StatusBadRequest, "password too short"), g)
           ELSE IF hash = NoHash
           THEN Reply(p, "reset", req,
                      writeError(StatusInternalServerError, "failed to hash password"), g)
           ELSE IF fault
           THEN Reply(p, "reset", req, ResetFailed, Failed(g))
           ELSE Await(p, "reset", "Select", req,
                      [NoLoc EXCEPT !.token = token, !.hash = hash, !.txStart = now], g)
    /\ UNCHANGED <<users, sessions, resets, now, nextTok, consumed, aborted, conc, todos>>

SelectForUpdateAtExpiry(token, txStart) ==
    {r \in resets : r.token = token /\ r.expires >= txStart}

\* SELECT user_id FROM password_resets WHERE token = $1 AND expires_at > NOW()
\* FOR UPDATE: the rows selected (NOW() is the transaction's start)
SelectForUpdate(token, txStart) ==
    {r \in resets : r.token = token /\ r.expires > txStart}

\* ConsumePasswordReset: the locking lookup; no row is sql.ErrNoRows, and the
\* deferred Rollback ends the transaction.  A statement that waits for a lock
\* can still fail: the request's deadline passes.
ConsumeSelect(p, fault) ==
    /\ proc[p].op = "reset" /\ proc[p].pc = "Select"
    /\ LET l == proc[p].loc
           rows == SelectForUpdate(l.token, l.txStart)
       IN  /\ fault \/ rows = {} \/ ResetRowFree(p, l.token)
           /\ IF fault
              THEN Reply(p, "reset", proc[p].in, ResetFailed, Failed(proc[p].g))
              ELSE IF rows = {}
              THEN Reply(p, "reset", proc[p].in, resetNoRows, proc[p].g)
              ELSE Await(p, "reset", "Update", proc[p].in,
                         [l EXCEPT !.uid = (CHOOSE r \in rows : TRUE).user], proc[p].g)
    /\ UNCHANGED <<users, sessions, resets, now, nextTok, consumed, aborted, conc, todos>>

RollbackUsersKept(uid, newHash) == [users EXCEPT ![uid].hash = newHash]

\* What the deferred tx.Rollback leaves of the transaction's UPDATE ...
RollbackUsers(uid, newHash) == users

\* ... and of its DELETE.
RollbackResets(token) == resets

\* ConsumePasswordReset: UPDATE users SET password_hash = $1 WHERE id = $2,
\* inside the transaction (it takes the lock of the user's row)
ConsumeUpdate(p, fault) ==
    /\ proc[p].op = "reset" /\ proc[p].pc = "Update"
    /\ fault \/ UserRowFree(p, proc[p].loc.uid)
    /\ IF fault
       THEN /\ Reply(p, "reset", proc[p].in, ResetFailed, Failed(proc[p].g))
            /\ aborted' = aborted \cup {proc[p].loc.token}
       ELSE IF proc[p].loc.uid \notin UserIds
       THEN /\ Reply(p, "reset", proc[p].in, resetNoRows, proc[p].g)
            /\ aborted' = aborted \cup {proc[p].loc.token}
       ELSE /\ Await(p, "reset", "Delete", proc[p].in, proc[p].loc, proc[p].g)
            /\ UNCHANGED aborted
    /\ UNCHANGED <<users, sessions, resets, now, nextTok, consumed, conc, todos>>

\* ConsumePasswordReset: DELETE FROM password_resets WHERE token = $1, inside
\* the transaction
ConsumeDelete(p, fault) ==
    /\ proc[p].op = "reset" /\ proc[p].pc = "Delete"
    /\ IF fault
       THEN /\ Reply(p, "reset", proc[p].in, ResetFailed, Failed(proc[p].g))
            /\ users' = RollbackUsers(proc[p].loc.uid, proc[p].loc.hash)
            /\ aborted' = aborted \cup {proc[p].loc.token}
       ELSE /\ Await(p, "reset", "Commit", proc[p].in, proc[p].loc, proc[p].g)
            /\ UNCHANGED <<users, aborted>>
    /\ UNCHANGED <<sessions, resets, now, nextTok, consumed, conc, todos>>

CommitUsersLost(uid, newHash) == users

\* What tx.Commit makes visible: the UPDATE of the user's row ...
CommitUsers(uid, newHash) == [users EXCEPT ![uid].hash = newHash]

CommitResetsKept(token) == resets

CommitResetsOfUser(token) ==
    {r \in resets : \A q \in resets : q.token = token => r.user # q.user}

\* ... and the DELETE of the token's row.
CommitResets(token) == {r \in resets : r.token # token}

CommitSessionsRevoked(uid) == {s \in sessions : s.user # uid}

\* The transaction has no statement on user_sessions.
CommitSessions(uid) == sessions

\* ConsumePasswordReset: tx.Commit, and handleResetPassword's response
ConsumeCommit(p, fault) ==
    /\ proc[p].op = "reset" /\ proc[p].pc = "Commit"
    /\ IF fault
       THEN /\ Reply(p, "reset", proc[p].in, ResetFailed, Failed(proc[p].g))
            /\ users' = RollbackUsers(proc[p].loc.uid, proc[p].loc.hash)
            /\ resets' = RollbackResets(proc[p].loc.token)
            /\ aborted' = aborted \cup {proc[p].loc.token}
            /\ UNCHANGED <<consumed, sessions>>
       ELSE /\ users' = CommitUsers(proc[p].loc.uid, proc[p].loc.hash)
            /\ resets' = CommitResets(proc[p].loc.token)
            /\ sessions' = CommitSessions(proc[p].loc.uid)
            /\ consumed' = consumed \cup {proc[p].loc.token}
            /\ Reply(p, "reset", proc[p].in,
                     writeJSON(StatusOK, MessageBody("password reset successfully")), proc[p].g)
            /\ UNCHANGED aborted
    /\ UNCHANGED <<now, nextTok, conc, todos>>

\* ---------------------------------------------------------------- the clock

\* Time passes.  Only the expiry comparisons read the clock, so it moves to
\* the instants that decide them: the last minute before an expiry, and the
\* expiry itself.
Instants ==
    LET ends == {s.expires : s \in sessions} \cup {r.expires : r \in resets}
    IN  ends \cup {e - 1 : e \in ends}

Tick ==
    /\ \E t \in Instants : t > now /\ now' = t
    /\ out' = NoOut
    /\ UNCHANGED <<users, sessions, resets, nextTok, proc, consumed, aborted, conc, todos>>

\* ------------------------------------------------------ the specifications

\* The registration of the account whose password is reset.
ValidRegisterRequest ==
    {[NoReq EXCEPT !.email = <<"a", "@", "b">>, !.name = <<"A", "l">>,
                   !.password = oldPassword]}

\* Reset tokens are asked for with the email as typed, and for a malformed
\* email.
ResetForgotRequest ==
    {[NoReq EXCEPT !.email = e] : e \in {<<" ", "A", "@", "B", " ">>, <<"a", "b">>}}

\* The statements of ConsumePasswordReset, one step each.
ConsumePasswordReset(p, fault) ==
    \/ ConsumeSelect(p, fault)
    \/ ConsumeUpdate(p, fault)
    \/ ConsumeDelete(p, fault)
    \/ ConsumeCommit(p, fault)

\* The password-reset flow: the account is registered, reset tokens are issued
\* and consumed by concurrent requests, time passes.
NextReset ==
    \/ \E p \in Procs, req \in ValidRegisterRequest : handleRegister(p, req, "s0")
    \/ \E p \in Procs : handleRegisterStore(p, FALSE)
    \/ \E p \in Procs, req \in ResetForgotRequest : handleForgotPassword(p, req, FALSE)
    \/ \E p \in Procs : handleForgotPasswordToken(p, FALSE)
    \/ \E p \in Procs, req \in ResetPasswordRequest : handleResetPassword(p, req, SaltOf(p), FALSE)
    \/ \E p \in Procs : ConsumeSelect(p, FALSE)
    \/ \E p \in Procs : ConsumeUpdate(p, FALSE)
    \/ \E p \in Procs : ConsumeDelete(p, FALSE)
    \/ \E p \in Procs : ConsumeCommit(p, FALSE)
    \/ Tick

SpecReset == Init /\ [][NextReset]_vars

\* Registration and login: every shape of email, a name to trim and a blank
\* one, passwords of both lengths; logins with the right and a wrong password.
AccountRegisterRequest ==
    {[NoReq EXCEPT !.email = e, !.name = n, !.password = pw] :
        e \in EmailInputs, n \in {<<" ", "A", "l", " ">>, <<" ">>},
        pw \in {oldPassword, shortPassword}}

AccountLoginRequest ==
    {[NoReq EXCEPT !.email = e, !.password = pw] :
        e \in {<<"a", "@", "b">>, <<" ", "A", "@", "B", " ">>, <<"a", "b">>},
        pw \in {oldPassword, newPassword}}

NextAccount ==
    \/ \E p \in Procs, req \in AccountRegisterRequest : handleRegister(p, req, "s0")
    \/ \E p \in Procs : handleRegisterStore(p, FALSE)
    \/ \E p \in Procs, req \in AccountLoginRequest : handleLogin(p, req, FALSE)
    \/ \E p \in Procs : handleLoginSession(p, FALSE)
    \/ Tick

SpecAccount == Init /\ [][NextAccount]_vars

\* Profiles: accounts are registered under every spelling of two emails and
\* logged in to; the profile is read and updated with every kind of
\* Authorization header.  A header that names no session comes with one body.
ProfileRegisterRequest ==
    {[NoReq EXCEPT !.email = e, !.name = <<"A", "l">>, !.password = oldPassword] :
        e \in {<<" ", "A", "@", "B", " ">>, <<"c", "@", "d">>}}

ProfileLoginRequest ==
    {[NoReq EXCEPT !.email = e, !.password = oldPassword] :
        e \in {<<"a", "@", "b">>, <<"c", "@", "d">>}}

SessionHeaders ==
    {Bearer \o <<" ">> \o generateToken(1) \o <<" ">>}
        \cup {Bearer \o generateToken(n) : n \in 2..MaxTokens}

ProfileHeaders ==
    {<<>>, <<"B", "a", "s", "i", "c", " ">> \o generateToken(1), Bearer}
        \cup SessionHeaders

ProfileUpdateRequest ==
    {r \in UpdateProfileRequest :
        /\ r.header \in ProfileHeaders
        /\ r.hasEmail => r.email \in {<<" ", "A", "@", "B", " ">>, <<"c", "@", "d">>, <<"a", "b">>}
        /\ r.hasName => r.name \in {<<" ", "B", "o", " ">>, <<" ">>}
        /\ r.header \notin SessionHeaders => ~r.hasEmail /\ r.hasName /\ r.name # <<" ">>}

\* Concurrent registrations, logins and profile updates, within the
\* sessions' lifetime.
NextProfile ==
    \/ \E p \in Procs, req \in ProfileRegisterRequest : handleRegister(p, req, "s0")
    \/ \E p \in Procs : handleRegisterStore(p, FALSE)
    \/ \E p \in Procs, req \in ProfileLoginRequest : handleLogin(p, req, FALSE)
    \/ \E p \in Procs : handleLoginSession(p, FALSE)
    \/ \E p \in Procs, req \in ProfileUpdateRequest : handleUpdateProfile(p, req, FALSE)
    \/ \E p \in Procs : handleUpdateProfileStore(p, FALSE)

SpecProfile == Init /\ [][NextProfile]_vars

\* Sessions over time: one request after the other registers, logs in, reads
\* and updates the profile, while the clock runs past the sessions' expiry.
NextSession ==
    \/ \E req \in ProfileRegisterRequest : handleRegister("p1", req, "s0")
    \/ handleRegisterStore("p1", FALSE)
    \/ \E req \in ProfileLoginRequest : handleLogin("p1", req, FALSE)
    \/ handleLoginSession("p1", FALSE)
    \/ \E h \in ProfileHeaders : handleGetProfile("p1", [NoReq EXCEPT !.header = h], FALSE)
    \/ \E req \in ProfileUpdateRequest : handleUpdateProfile("p1", req, FALSE)
    \/ handleUpdateProfileStore("p1", FALSE)
    \/ Tick

SpecSession == Init /\ [][NextSession]_vars

\* Storage failures: one request after the other goes through every handler
\* for one account, and any statement sent to the storage may fail.
FaultRegisterRequest ==
    {[NoReq EXCEPT !.email = <<"a", "@", "b">>, !.name = <<"A", "l">>,
                   !.password = oldPassword]}

FaultLoginRequest ==
    {[NoReq EXCEPT !.email = <<"a", "@", "b">>, !.password = pw] :
        pw \in {oldPassword, newPassword}}

FaultForgotRequest == {[NoReq EXCEPT !.email = <<"a", "@", "b">>]}

FaultResetRequest ==
    {[NoReq EXCEPT !.token = generateToken(n), !.password = newPassword] :
        n \in 1..MaxTokens}

FaultHeaders == {Bearer \o generateToken(n) : n \in 1..MaxTokens}

FaultUpdateRequest ==
    {[NoReq EXCEPT !.header = h, !.hasName = TRUE, !.name = <<" ", "B", "o", " ">>] :
        h \in FaultHeaders}

NextFault ==
    \/ \E req \in FaultRegisterRequest : handleRegister("p1", req, "s0")
    \/ \E fault \in BOOLEAN : handleRegisterStore("p1", fault)
    \/ \E req \in FaultLoginRequest, fault \in BOOLEAN : handleLogin("p1", req, fault)
    \/ \E fault \in BOOLEAN : handleLoginSession("p1", fault)
    \/ \E req \in FaultForgotRequest, fault \in BOOLEAN :
            handleForgotPassword("p1", req, fault)
    \/ \E fault \in BOOLEAN : handleForgotPasswordToken("p1", fault)
    \/ \E req \in FaultResetRequest, fault \in BOOLEAN :
            handleResetPassword("p1", req, "s1", fault)
    \/ \E fault \in BOOLEAN : ConsumeSelect("p1", fault)
    \/ \E fault \in BOOLEAN : ConsumeUpdate("p1", fault)
    \/ \E fault \in BOOLEAN : ConsumeDelete("p1", fault)
    \/ \E fault \in BOOLEAN : ConsumeCommit("p1", fault)
    \/ \E h \in FaultHeaders, fault \in BOOLEAN :
            handleGetProfile("p1", [NoReq EXCEPT !.header = h], fault)
    \/ \E req \in FaultUpdateRequest, fault \in BOOLEAN :
            handleUpdateProfile("p1", req, fault)
    \/ \E fault \in BOOLEAN : handleUpdateProfileStore("p1", fault)

SpecFault == Init /\ [][NextFault]_vars

\* Recovering an account: one account is registered, logged in to with the
\* password registered and with the one a reset sets, by concurrent requests.
RecoverRegisterRequest ==
    {[NoReq EXCEPT !.email = <<"a", "@", "b">>, !.name = <<"A", "l">>,
                   !.password = oldPassword]}

RecoverLoginRequest ==
    {[NoReq EXCEPT !.email = <<" ", "A", "@", "B", " ">>, !.password = pw] :
        pw \in {oldPassword, newPassword}}

RecoverForgotRequest == {[NoReq EXCEPT !.email = <<"a", "@", "b">>]}

RecoverResetRequest ==
    {[NoReq EXCEPT !.token = generateToken(n), !.password = newPassword] :
        n \in 1..MaxTokens}

NextRecover ==
    \/ \E p \in Procs, req \in RecoverRegisterRequest : handleRegister(p, req, "s0")
    \/ \E p \in Procs : handleRegisterStore(p, FALSE)
    \/ \E p \in Procs, req \in RecoverLoginRequest : handleLogin(p, req, FALSE)
    \/ \E p \in Procs : handleLoginSession(p, FALSE)
    \/ \E p \in Procs, req \in RecoverForgotRequest : handleForgotPassword(p, req, FALSE)
    \/ \E p \in Procs : handleForgotPasswordToken(p, FALSE)
    \/ \E p \in Procs, req \in RecoverResetRequest :
            handleResetPassword(p, req, SaltOf(p), FALSE)
    \/ \E p \in Procs : ConsumeSelect(p, FALSE)
    \/ \E p \in Procs : ConsumeUpdate(p, FALSE)
    \/ \E p \in Procs : ConsumeDelete(p, FALSE)
    \/ \E p \in Procs : ConsumeCommit(p, FALSE)

SpecRecover == Init /\ [][NextRecover]_vars

\* Rollback: the password-reset flow of one account, where any statement of
\* ConsumePasswordReset after the lookup may fail (the storage fails, the
\* request's deadline passes), also while another request waits for the row.
\* Registration and the issue of tokens come one request at a time.
RollbackResetRequest ==
    {[NoReq EXCEPT !.token = generateToken(n), !.password = newPassword] :
        n \in 1..MaxTokens}

NextRollback ==
    \/ \E req \in ValidRegisterRequest : handleRegister("p1", req, "s0")
    \/ handleRegisterStore("p1", FALSE)
    \/ \E req \in RecoverForgotRequest : handleForgotPassword("p1", req, FALSE)
    \/ handleForgotPasswordToken("p1", FALSE)
    \/ \E p \in Procs, req \in RollbackResetRequest :
            handleResetPassword(p, req, SaltOf(p), FALSE)
    \/ \E p \in Procs : ConsumeSelect(p, FALSE)
    \/ \E p \in Procs, fault \in BOOLEAN : ConsumeUpdate(p, fault)
    \/ \E p \in Procs, fault \in BOOLEAN : ConsumeDelete(p, fault)
    \/ \E p \in Procs, fault \in BOOLEAN : ConsumeCommit(p, fault)
    \/ Tick

SpecRollback == Init /\ [][NextRollback]_vars

\* The hasher: an account is registered with one password and logged in to
\* with another.  The passwords are one of 8 bytes, the same followed by NUL
\* and itself, one of the 72 bytes bcrypt reads, and the same with one more
\* byte.
password72 == [i \in 1..72 |-> "x"]

HasherPasswords ==
    {oldPassword, newPassword, oldPassword \o <<NUL>> \o oldPassword,
     password72, Append(password72, "y")}

HasherRegisterRequest ==
    {[NoReq EXCEPT !.email = <<"a", "@", "b">>, !.name = <<"A", "l">>,
                   !.password = pw] : pw \in HasherPasswords}

HasherLoginRequest ==
    {[NoReq EXCEPT !.email = <<"a", "@", "b">>, !.password = pw] :
        pw \in HasherPasswords}

NextHasher ==
    \/ \E req \in HasherRegisterRequest : handleRegister("p1", req, "s0")
    \/ handleRegisterStore("p1", FALSE)
    \/ \E req \in HasherLoginRequest : handleLogin("p1", req, FALSE)
    \/ handleLoginSession("p1", FALSE)

SpecHasher == Init /\ [][NextHasher]_vars

\* Sessions and resets: one account logs in, has its password reset and reads
\* its profile, the reset and the reads by concurrent requests, while time
\* passes.
KeepRegisterRequest ==
    {[NoReq EXCEPT !.email = <<"a", "@", "b">>, !.name = <<"A", "l">>,
                   !.password = oldPassword]}

KeepLoginRequest ==
    {[NoReq EXCEPT !.email = <<"a", "@", "b">>, !.password = oldPassword]}

KeepForgotRequest == {[NoReq EXCEPT !.email = <<"a", "@", "b">>]}

KeepResetRequest ==
    {[NoReq EXCEPT !.token = generateToken(n), !.password = newPassword] :
        n \in 1..MaxTokens}

KeepProfileRequest ==
    {[NoReq EXCEPT !.header = Bearer \o generateToken(n)] : n \in 1..MaxTokens}

NextKeep ==
    \/ \E req \in KeepRegisterRequest : handleRegister("p1", req, "s0")
    \/ handleRegisterStore("p1", FALSE)
    \/ \E req \in KeepLoginRequest : handleLogin("p1", req, FALSE)
    \/ handleLoginSession("p1", FALSE)
    \/ \E req \in KeepForgotRequest : handleForgotPassword("p1", req, FALSE)
    \/ handleForgotPasswordToken("p1", FALSE)
    \/ \E p \in Procs, req \in KeepResetRequest :
            handleResetPassword(p, req, SaltOf(p), FALSE)
    \/ \E p \in Procs : ConsumeSelect(p, FALSE)
    \/ \E p \in Procs : ConsumeUpdate(p, FALSE)
    \/ \E p \in Procs : ConsumeDelete(p, FALSE)
    \/ \E p \in Procs : ConsumeCommit(p, FALSE)
    \/ \E req \in KeepProfileRequest : handleGetProfile("p2", req, FALSE)
    \/ Tick

SpecKeep == Init /\ [][NextKeep]_vars

\* Several reset tokens of one account: the tokens are issued one after the
\* other and consumed by concurrent requests, each with one of two new
\* passwords, while time passes.
TokensRegisterRequest ==
    {[NoReq EXCEPT !.email = <<"a", "@", "b">>, !.name = <<"A", "l">>,
                   !.password = oldPassword]}

TokensForgotRequest == {[NoReq EXCEPT !.email = <<"a", "@", "b">>]}

TokensResetRequest ==
    {[NoReq EXCEPT !.token = generateToken(n), !.password = pw] :
        n \in 1..MaxTokens, pw \in {newPassword, thirdPassword}}

NextTokens ==
    \/ \E req \in TokensRegisterRequest : handleRegister("p1", req, "s0")
    \/ handleRegisterStore("p1", FALSE)
    \/ \E req \in TokensForgotRequest : handleForgotPassword("p1", req, FALSE)
    \/ handleForgotPasswordToken("p1", FALSE)
    \/ \E p \in Procs, req \in TokensResetRequest :
            handleResetPassword(p, req, SaltOf(p), FALSE)
    \/ \E p \in Procs : ConsumeSelect(p, FALSE)
    \/ \E p \in Procs : ConsumeUpdate(p, FALSE)
    \/ \E p \in Procs : ConsumeDelete(p, FALSE)
    \/ \E p \in Procs : ConsumeCommit(p, FALSE)
    \/ Tick

SpecTokens == Init /\ [][NextTokens]_vars

\* The same without the clock: the tokens stay valid.  Every transaction
\* that can take its next step takes it in the end.
NextRace ==
    \/ \E req \in TokensRegisterRequest : handleRegister("p1", req, "s0")
    \/ handleRegisterStore("p1", FALSE)
    \/ \E req \in TokensForgotRequest : handleForgotPassword("p1", req, FALSE)
    \/ handleForgotPasswordToken("p1", FALSE)
    \/ \E p \in Procs, req \in TokensResetRequest :
            handleResetPassword(p, req, SaltOf(p), FALSE)
    \/ \E p \in Procs : ConsumeSelect(p, FALSE)
    \/ \E p \in Procs : ConsumeUpdate(p, FALSE)
    \/ \E p \in Procs : ConsumeDelete(p, FALSE)
    \/ \E p \in Procs : ConsumeCommit(p, FALSE)

SpecRace ==
    /\ Init /\ [][NextRace]_vars
    /\ \A p \in Procs : WF_vars(ConsumePasswordReset(p, FALSE))

\* ------------------------------------------------------------ request bodies

\* A request body as json.Decoder meets it: the JSON values it holds, one after
\* another.  A value is an object (the names of its members, and their values
\* as a request record), null, a value of another type, or text that is not
\* JSON.
JSONObject(names, val) == [kind |-> "object", names |-> names, val |-> val]

JSONNull == [kind |-> "null", names |-> {}, val |-> NoReq]

JSONArray == [kind |-> "array", names |-> {}, val |-> NoReq]

Malformed == [kind |-> "malformed", names |-> {}, val |-> NoReq]

\* The request structs: the json names of their fields, and whether the
\* fields are pointers.
RegisterRequestType == [fields |-> {"email", "password", "name"}, pointers |-> FALSE]

LoginRequestType == [fields |-> {"email", "password"}, pointers |-> FALSE]

UpdateProfileRequestType == [fields |-> {"email", "name"}, pointers |-> TRUE]

ForgotPasswordRequestType == [fields |-> {"email"}, pointers |-> FALSE]

ResetPasswordRequestType == [fields |-> {"token", "new_password"}, pointers |-> FALSE]

\* What Decode stores in the struct: the members the struct has a field for,
\* the zero value for the others; null stores nothing.
Unmarshal(value, dst) ==
    LET has(f) == value.kind = "object" /\ f \in value.names \cap dst.fields
    IN  [NoReq EXCEPT
            !.email = IF has("email") THEN value.val.email ELSE <<>>,
            !.name = IF has("name") THEN value.val.name ELSE <<>>,
            !.password = IF has("password") \/ has("new_password")
                         THEN value.val.password ELSE <<>>,
            !.token = IF has("token") THEN value.val.token ELSE <<>>,
            !.hasEmail = dst.pointers /\ has("email"),
            !.hasName = dst.pointers /\ has("name")]

\* The error of dec.Decode(dst) with DisallowUnknownFields, "" if none.
Decode(body, dst) ==
    IF body = <<>> THEN "EOF"
    ELSE IF body[1].kind = "malformed" THEN "invalid character"
    ELSE IF body[1].kind = "array" THEN "json: cannot unmarshal"
    ELSE IF body[1].kind = "object" /\ ~(body[1].names \subseteq dst.fields)
    THEN "json: unknown field"
    ELSE ""

\* decodeJSON: the first value is decoded into dst, and a second Decode must
\* meet the end of the body.
decodeJSONFirstValue(body, dst) ==
    [err |-> Decode(body, dst),
     dst |-> IF Decode(body, dst) = "" THEN Unmarshal(body[1], dst) ELSE NoReq]

decodeJSON(body, dst) ==
    IF Decode(body, dst) # ""
    THEN [err |-> Decode(body, dst), dst |-> NoReq]
    ELSE IF Tail(body) # <<>>
    THEN [err |-> "body must contain a single JSON object",
          dst |-> Unmarshal(body[1], dst)]
    ELSE [err |-> "", dst |-> Unmarshal(body[1], dst)]

\* The handlers from the request body on: the body is decoded, and a body
\* that does not decode is answered 400 with the decoder's message.
BadBody(p, op, req, err, g) ==
    /\ proc[p].op = "idle"
    /\ Reply(p, op, req, writeError(StatusBadRequest, err), g)
    /\ UNCHANGED <<users, sessions, resets, now, nextTok, consumed, aborted, conc, todos>>

handleRegisterBody(p, body, salt) ==
    LET d == decodeJSON(body, RegisterRequestType)
    IN  IF d.err # "" THEN BadBody(p, "register", d.dst, d.err, NoGhost)
        ELSE handleRegister(p, d.dst, salt)

handleLoginBody(p, body, fault) ==
    LET d == decodeJSON(body, LoginRequestType)
    IN  IF d.err # "" THEN BadBody(p, "login", d.dst, d.err, NoGhost)
        ELSE handleLogin(p, d.dst, fault)

handleForgotPasswordBody(p, body, fault) ==
    LET d == decodeJSON(body, ForgotPasswordRequestType)
    IN  IF d.err # "" THEN BadBody(p, "forgot", d.dst, d.err, NoGhost)
        ELSE handleForgotPassword(p, d.dst, fault)

handleResetPasswordBody(p, body, salt, fault) ==
    LET d == decodeJSON(body, ResetPasswordRequestType)
    IN  IF d.err # "" THEN BadBody(p, "reset", d.dst, d.err, NoGhost)
        ELSE handleResetPassword(p, d.dst, salt, fault)

\* handleUpdateProfile authenticates before it decodes the body.
handleUpdateProfileBody(p, header, body, fault) ==
    LET auth == authenticate(header, now, fault)
        d == decodeJSON(body, UpdateProfileRequestType)
        req == [d.dst EXCEPT !.header = header]
    IN  IF auth.err = NoErr /\ d.err # ""
        THEN BadBody(p, "update", req, d.err, SessionGhost(header, auth.err))
        ELSE handleUpdateProfile(p, req, fault)

\* Bodies: none, text that is not JSON, a value that is no object, null, the
\* empty object, one object, one with a member the struct has no field for,
\* and an object followed by more.
Bodies(names, val) ==
    LET object == JSONObject(names, val)
    IN  { <<>>, <<Malformed>>, <<JSONArray>>, <<JSONNull>>,
          <<JSONObject({}, NoReq)>>, <<object>>,
          <<JSONObject(names \cup {"admin"}, val)>>,
          <<object, object>>, <<object, Malformed>>, <<object, JSONNull>> }

DecodeRegisterBodies ==
    Bodies({"email", "password", "name"},
           [NoReq EXCEPT !.email = <<"a", "@", "b">>, !.name = <<"A", "l">>,
                         !.password = oldPassword])

DecodeLoginBodies ==
    Bodies({"email", "password"},
           [NoReq EXCEPT !.email = <<"a", "@", "b">>, !.password = oldPassword])

DecodeForgotBodies ==
    Bodies({"email"}, [NoReq EXCEPT !.email = <<"a", "@", "b">>])

DecodeResetBodies ==
    UNION {Bodies({"token", "new_password"},
                  [NoReq EXCEPT !.token = generateToken(n), !.password = newPassword]) :
              n \in 1..MaxTokens}

DecodeUpdateBodies == Bodies({"name"}, [NoReq EXCEPT !.name = <<" ", "B", "o", " ">>])

DecodeHeaders == {<<>>} \cup {Bearer \o generateToken(n) : n \in 1..MaxTokens}

NextDecode ==
    \/ \E body \in DecodeRegisterBodies : handleRegisterBody("p1", body, "s0")
    \/ handleRegisterStore("p1", FALSE)
    \/ \E body \in DecodeLoginBodies : handleLoginBody("p1", body, FALSE)
    \/ handleLoginSession("p1", FALSE)
    \/ \E body \in DecodeForgotBodies : handleForgotPasswordBody("p1", body, FALSE)
    \/ handleForgotPasswordToken("p1", FALSE)
    \/ \E body \in DecodeResetBodies : handleResetPasswordBody("p1", body, "s1", FALSE)
    \/ ConsumePasswordReset("p1", FALSE)
    \/ \E header \in DecodeHeaders, body \in DecodeUpdateBodies :
            handleUpdateProfileBody("p1", header, body, FALSE)
    \/ handleUpdateProfileStore("p1", FALSE)

SpecDecode == Init /\ [][NextDecode]_vars

\* ------------------------------------------------ handlePracticeConcurrency

memberDiscountRate(member) ==
    CASE member = "gold" -> 10
      [] member = "silver" -> 5
      [] OTHER -> 0

shippingFee(subtotal) == IF subtotal >= 10000 THEN 0 ELSE 1200

\* math.Round(value*100) / 100 of value = cents * percent / 10000: to the
\* nearest cent, halves away from zero (the amounts are not negative).
roundTwo(cents, percent) == (cents * percent + 50) \div 100

\* The quote a worker computes from its order (the total is a whole number
\* of cents, which roundTwo leaves as it is).
Quote(input) ==
    LET discount == roundTwo(input.Subtotal, memberDiscountRate(input.Member))
        shipping == shippingFee(input.Subtotal)
    IN  [order_id |-> input.OrderID, member |-> input.Member,
         subtotal |-> input.Subtotal, discount |-> discount,
         shipping |-> shipping,
         total |-> input.Subtotal - discount + shipping]

\* make(chan result, len(orders))
Capacity == Len(orders)

\* The handler is entered: the channel and the WaitGroup are made.
handlePracticeConcurrency ==
    /\ conc.pc = "idle"
    /\ conc' = [NoConc EXCEPT !.pc = "range", !.i = 1]
    /\ UNCHANGED <<users, sessions, resets, now, nextTok, proc, out, consumed,
                   aborted, todos>>

\* for i, order := range orders { wg.Add(1); go func(idx, input) ... }
StartWorker ==
    /\ conc.pc = "range" /\ conc.i <= Len(orders)
    /\ conc' = [conc EXCEPT !.wg = @ + 1, !.worker[conc.i] = "run", !.i = @ + 1]
    /\ UNCHANGED <<users, sessions, resets, now, nextTok, proc, out, consumed,
                   aborted, todos>>

\* go func() { wg.Wait(); close(results) }(); quotes := make(...)
StartCloser ==
    /\ conc.pc = "range" /\ conc.i > Len(orders)
    /\ conc' = [conc EXCEPT !.closer = "wait", !.pc = "collect",
                            !.quotes = [k \in 1..Len(orders) |-> NoQuote]]
    /\ UNCHANGED <<users, sessions, resets, now, nextTok, proc, out, consumed,
                   aborted, todos>>

\* results <- result{Index: idx, Quote: ...}: the send waits while the buffer
\* is full and panics on a closed channel.
WorkerSend(idx) ==
    /\ conc.worker[idx] = "run"
    /\ conc.closed \/ Len(conc.results) < Capacity
    /\ conc' = IF conc.closed
               THEN [conc EXCEPT !.worker[idx] = "panic"]
               ELSE [conc EXCEPT !.worker[idx] = "sent",
                                 !.results = Append(@, [Index |-> idx,
                                                        Quote |-> Quote(orders[idx])])]
    /\ UNCHANGED <<users, sessions, resets, now, nextTok, proc, out, consumed,
                   aborted, todos>>

\* defer wg.Done()
WorkerDone(idx) ==
    /\ conc.worker[idx] = "sent"
    /\ conc' = [conc EXCEPT !.worker[idx] = "exit", !.wg = @ - 1]
    /\ UNCHANGED <<users, sessions, resets, now, nextTok, proc, out, consumed,
                   aborted, todos>>

WaitNever(wg) == TRUE

\* wg.Wait() returns when the counter is zero.
Wait(wg) == wg = 0

CloserWait ==
    /\ conc.closer = "wait"
    /\ Wait(conc.wg)
    /\ conc' = [conc EXCEPT !.closer = "close"]
    /\ UNCHANGED <<users, sessions, resets, now, nextTok, proc, out, consumed,
                   aborted, todos>>

\* close(results): closing a closed channel panics.
CloserClose ==
    /\ conc.closer = "close"
    /\ conc' = IF conc.closed
               THEN [conc EXCEPT !.closer = "panic"]
               ELSE [conc EXCEPT !.closer = "exit", !.closed = TRUE, !.closes = @ + 1]
    /\ UNCHANGED <<users, sessions, resets, now, nextTok, proc, out, consumed,
                   aborted, todos>>

quoteSlotByArrival(res, received) == Len(received) + 1

\* quotes[res.Index] = res.Quote: the slot a result is stored in.
quoteSlot(res, received) == res.Index

\* for res := range results { ... }: one result is received and stored.
Receive ==
    /\ conc.pc = "collect" /\ conc.results # <<>>
    /\ LET res == Head(conc.results)
           slot == quoteSlot(res, conc.received)
       IN  conc' = [conc EXCEPT !.results = Tail(@),
                                !.quotes[slot] = res.Quote,
                                !.writes[slot] = @ + 1,
                                !.received = Append(@, res.Index)]
    /\ UNCHANGED <<users, sessions, resets, now, nextTok, proc, out, consumed,
                   aborted, todos>>

\* The loop ends when the channel is closed and empty; the response is
\* written.
RangeEnd ==
    /\ conc.pc = "collect" /\ conc.results = <<>> /\ conc.closed
    /\ conc' = [conc EXCEPT !.pc = "idle",
                            !.resp = [status |-> StatusOK, quotes |-> conc.quotes,
                                      workers |-> Len(orders)]]
    /\ UNCHANGED <<users, sessions, resets, now, nextTok, proc, out, consumed,
                   aborted, todos>>

\* The steps of a request under way.
ConcurrencySteps ==
    \/ StartWorker
    \/ StartCloser
    \/ \E idx \in 1..Len(orders) : WorkerSend(idx)
    \/ \E idx \in 1..Len(orders) : WorkerDone(idx)
    \/ CloserWait
    \/ CloserClose
    \/ Receive
    \/ RangeEnd

NextConcurrency ==
    \/ handlePracticeConcurrency
    \/ StartWorker
    \/ StartCloser
    \/ \E idx \in 1..Len(orders) : WorkerSend(idx)
    \/ \E idx \in 1..Len(orders) : WorkerDone(idx)
    \/ CloserWait
    \/ CloserClose
    \/ Receive
    \/ RangeEnd

SpecConcurrency == Init /\ [][NextConcurrency]_vars

\* The Go scheduler runs every goroutine that can run.
SpecConcurrencyFair ==
    Init /\ [][NextConcurrency]_vars /\ WF_vars(ConcurrencySteps)

\* -------------------------------------------------------------- the todos

\* A row of the table todos; the row of a deleted todo keeps its id unused.
\* (created_at and updated_at are not modelled.)
TodoRow(title, done) == [title |-> title, done |-> done, live |-> TRUE]

DeletedTodo == [title |-> <<>>, done |-> FALSE, live |-> FALSE]

TodoIds == {id \in 1..Len(todos) : todos[id].live}

\* What encoding/json writes for a Todo.
TodoJSON(id, row) == [id |-> id, title |-> row.title, done |-> row.done]

NoTodoJSON == [id |-> 0, title |-> <<>>, done |-> FALSE]

\* A decoded request of the todo service, with its path parameter; hasTitle
\* and hasDone: the pointer fields of updateTodoRequest.
NoTodoReq ==
    [idParam |-> <<>>, title |-> <<>>, done |-> FALSE, hasTitle |-> FALSE,
     hasDone |-> FALSE]

TodoResponse(status, todo) ==
    [status |-> status,
     body |-> [keys |-> {"id", "title", "done"}, error |-> "", todo |-> todo]]

TodoError(status, message) ==
    [status |-> status,
     body |-> [keys |-> {"error"}, error |-> message, todo |-> NoTodoJSON]]

DecimalDigits == <<"0", "1", "2", "3", "4", "5", "6", "7", "8", "9">>

IsDigit(c) == \E k \in 1..Len(DecimalDigits) : DecimalDigits[k] = c

DigitValue(c) == (CHOOSE k \in 1..Len(DecimalDigits) : DecimalDigits[k] = c) - 1

RECURSIVE ParseDigits(_)
ParseDigits(digits) ==
    IF digits = <<>> THEN 0
    ELSE ParseDigits(SubSeq(digits, 1, Len(digits) - 1)) * Len(DecimalDigits)
            + DigitValue(digits[Len(digits)])

\* strconv.ParseInt(idParam, 10, 64): an optional sign and digits; the values
\* here are far from the 64-bit range.
ParseInt(param) ==
    LET signed == param # <<>> /\ param[1] \in {"+", "-"}
        digits == IF signed THEN Tail(param) ELSE param
    IN  IF digits = <<>> \/ \E k \in 1..Len(digits) : ~IsDigit(digits[k])
        THEN [err |-> TRUE, value |-> 0]
        ELSE [err |-> FALSE,
              value |-> IF signed /\ param[1] = "-" THEN 0 - ParseDigits(digits)
                        ELSE ParseDigits(digits)]

\* readIDParam: the id of the path, 0 with an error
readIDParam(param) ==
    IF ParseInt(param).err \/ ParseInt(param).value < 1
    THEN [err |-> TRUE, id |-> 0]
    ELSE [err |-> FALSE, id |-> ParseInt(param).value]

updateTodoRequestType == [fields |-> {"title", "done"}, pointers |-> TRUE]

\* What Decode stores in an updateTodoRequest.
UnmarshalTodo(value) ==
    LET has(f) == value.kind = "object" /\ f \in value.names
    IN  [NoTodoReq EXCEPT
            !.hasTitle = has("title"),
            !.title = IF has("title") THEN value.val.title ELSE <<>>,
            !.hasDone = has("done"),
            !.done = IF has("done") THEN value.val.done ELSE FALSE]

\* INSERT INTO todos (title, done) VALUES ($1, $2): the table after it
Create(title, done) == Append(todos, TodoRow(title, done))

UpdateNoCoalesce(id, hasTitle, title, hasDone, done) ==
    IF id \notin TodoIds THEN [err |-> ErrNoRows, table |-> todos]
    ELSE [err |-> NoErr, table |-> [todos EXCEPT ![id] = TodoRow(title, done)]]

\* UPDATE todos SET title = COALESCE($1, title), done = COALESCE($2, done)
\* WHERE id = $3 RETURNING ...: no row is sql.ErrNoRows
Update(id, hasTitle, title, hasDone, done) ==
    IF id \notin TodoIds THEN [err |-> ErrNoRows, table |-> todos]
    ELSE [err |-> NoErr,
          table |-> [todos EXCEPT
                        ![id] = TodoRow(IF hasTitle THEN title ELSE todos[id].title,
                                        IF hasDone THEN done ELSE todos[id].done)]]

\* DELETE FROM todos WHERE id = $1: the table after it
Delete(id) == IF id \in TodoIds THEN [todos EXCEPT ![id] = DeletedTodo] ELSE todos

\* The response of a handler of the todo service.
TodoReply(op, req, resp, fault) ==
    out' = [op |-> op, in |-> req, resp |-> resp,
            g |-> IF fault THEN Failed(NoGhost) ELSE NoGhost]

\* handleCreateTodo, from the decoded body on; fault: the statement fails in
\* the storage
handleCreateTodo(title, done, fault) ==
    /\ Len(todos) < MaxTodos
    /\ LET req == [NoTodoReq EXCEPT !.title = title, !.done = done]
           trimmed == TrimSpace(title)
       IN  IF trimmed = <<>>
           THEN /\ TodoReply("createTodo", req,
                             TodoError(StatusBadRequest, "title is required"), FALSE)
                /\ UNCHANGED todos
           ELSE IF fault
           THEN /\ TodoReply("createTodo", req,
                             TodoError(StatusInternalServerError, "failed to create todo"),
                             TRUE)
                /\ UNCHANGED todos
           ELSE /\ todos' = Create(trimmed, done)
                /\ TodoReply("createTodo", req,
                             TodoResponse(StatusCreated,
                                          TodoJSON(Len(todos) + 1, TodoRow(trimmed, done))),
                             FALSE)
    /\ UNCHANGED <<users, sessions, resets, now, nextTok, proc, consumed, aborted,
                   conc>>

handleUpdateTodo(idParam, body, fault) ==
    /\ LET parsed == readIDParam(idParam)
           d == decodeJSON(body, updateTodoRequestType)
           input == IF d.err = "" THEN UnmarshalTodo(body[1]) ELSE NoTodoReq
           req == [input EXCEPT !.idParam = idParam]
           trimmed == TrimSpace(input.title)
           res == Update(parsed.id, input.hasTitle, trimmed, input.hasDone, input.done)
       IN  IF parsed.err
           THEN /\ TodoReply("updateTodo", req,
                             TodoError(StatusBadRequest, "invalid id"), FALSE)
                /\ UNCHANGED todos
           ELSE IF d.err # ""
           THEN /\ TodoReply("updateTodo", req, TodoError(StatusBadRequest, d.err), FALSE)
                /\ UNCHANGED todos
           ELSE IF ~input.hasTitle /\ ~input.hasDone
           THEN /\ TodoReply("updateTodo", req,
                             TodoError(StatusBadRequest, "provide title or done"), FALSE)
                /\ UNCHANGED todos
           ELSE IF input.hasTitle /\ trimmed = <<>>
           THEN /\ TodoReply("updateTodo", req,
                             TodoError(StatusBadRequest, "title cannot be empty"), FALSE)
                /\ UNCHANGED todos
           ELSE IF fault
           THEN /\ TodoReply("updateTodo", req,
                             TodoError(StatusInternalServerError, "failed to update todo"),
                             TRUE)
                /\ UNCHANGED todos
           ELSE IF res.err = ErrNoRows
           THEN /\ TodoReply("updateTodo", req,
                             TodoError(StatusNotFound, "todo not found"), FALSE)
                /\ UNCHANGED todos
           ELSE /\ todos' = res.table
                /\ TodoReply("updateTodo", req,
                             TodoResponse(StatusOK, TodoJSON(parsed.id, res.table[parsed.id])),
                             FALSE)
    /\ UNCHANGED <<users, sessions, resets, now, nextTok, proc, consumed, aborted,
                   conc>>

handleDeleteTodo(idParam, fault) ==
    /\ LET parsed == readIDParam(idParam)
           req == [NoTodoReq EXCEPT !.idParam = idParam]
       IN  IF parsed.err
           THEN /\ TodoReply("deleteTodo", req,
                             TodoError(StatusBadRequest, "invalid id"), FALSE)
                /\ UNCHANGED todos
           ELSE IF fault
           THEN /\ TodoReply("deleteTodo", req,
                             TodoError(StatusInternalServerError, "failed to delete todo"),
                             TRUE)
                /\ UNCHANGED todos
           ELSE IF parsed.id \notin TodoIds
           THEN /\ TodoReply("deleteTodo", req,
                             TodoError(StatusNotFound, "todo not found"), FALSE)
                /\ UNCHANGED todos
           ELSE /\ todos' = Delete(parsed.id)
                /\ TodoReply("deleteTodo", req,
                             [status |-> StatusNoContent,
                              body |-> [keys |-> {}, error |-> "", todo |-> NoTodoJSON]],
                             FALSE)
    /\ UNCHANGED <<users, sessions, resets, now, nextTok, proc, consumed, aborted,
                   conc>>

\* The todo service: titles with blanks around them and of blanks only; ids
\* of todos, of none, below 1, with a leading zero and no number; bodies with
\* either field, both, none, a field unknown, no JSON, and two values.
TodoTitles == { <<"a">>, <<" ", "b", " ">>, <<" ">> }

TodoIdParams ==
    { <<DecimalDigits[n + 1]>> : n \in 0..(MaxTodos + 1) } \cup { <<"0", "1">>, <<"x">> }

UpdateTodoBodies ==
    LET titles == {JSONObject({"title"}, [NoTodoReq EXCEPT !.title = t]) : t \in TodoTitles}
        dones == {JSONObject({"done"}, [NoTodoReq EXCEPT !.done = dn]) : dn \in BOOLEAN}
        both == {JSONObject({"title", "done"}, [NoTodoReq EXCEPT !.title = t, !.done = TRUE]) :
                    t \in TodoTitles}
    IN  {<<o>> : o \in titles \cup dones \cup both}
            \cup { <<JSONObject({}, NoTodoReq)>>, <<Malformed>>,
                   <<JSONObject({"owner"}, NoTodoReq)>>,
                   <<JSONObject({"done"}, NoTodoReq), JSONObject({"done"}, NoTodoReq)>> }

NextTodo ==
    \/ \E title \in {<<"a">>, <<" ">>}, done \in BOOLEAN, fault \in BOOLEAN :
            handleCreateTodo(title, done, fault)
    \/ \E idParam \in TodoIdParams, body \in UpdateTodoBodies, fault \in BOOLEAN :
            handleUpdateTodo(idParam, body, fault)
    \/ \E idParam \in TodoIdParams, fault \in BOOLEAN : handleDeleteTodo(idParam, fault)

SpecTodo == Init /\ [][NextTodo]_vars

\* ------------------------------------------------ properties: password reset

\* The transaction of ConsumePasswordReset that commits in this step.
Committing(p) == proc[p].op = "reset" /\ proc[p].pc = "Commit" /\ proc'[p] = Idle

ResetSucceeded(o) == o.op = "reset" /\ o.resp.status = StatusOK

InvalidOrExpired == writeError(StatusBadRequest, "invalid or expired token")

\* C1: consuming a reset token is atomic.  In every step that changes the
\* committed tables, a token row disappears only together with the owning
\* user's hash becoming the new hash of the transaction that consumed it, and
\* a stored password hash changes only together with the deletion of a
\* token row of that user; no step does one without the other.
C1_ConsumeAtomic ==
    [][ /\ \A r \in resets \ resets' :
              \E p \in Procs :
                  /\ Committing(p) /\ proc[p].loc.token = r.token
                  /\ users'[r.user].hash = proc[p].loc.hash
        /\ \A i \in UserIds :
              users'[i].hash # users[i].hash =>
                  \E r \in resets \ resets' : r.user = i ]_vars

\* C1 witness: a consumption has just committed while another request's
\* transaction is in flight.
C1_Witness ==
    /\ ResetSucceeded(out)
    /\ \E p \in Procs : proc[p].op = "reset"
    /\ \E i \in UserIds : users[i].hash.pw = newPassword

\* C2: of the calls of ConsumePasswordReset that begin while the token's row
\* exists and has not expired, exactly one succeeds: such a call answers 200
\* or 400 "invalid or expired token", it answers 400 only when another call
\* has consumed the token, no call succeeds on a token already consumed, a
\* failing call changes no table, and the succeeding call leaves its own new
\* hash as the user's password hash.
C2_ExactlyOneConsumes ==
    /\ [](out.op = "reset" /\ out.g.found /\ out.g.live
            /\ TrimSpace(out.in.token) # <<>>
            /\ Len(out.in.password) >= minPasswordLength
          => \/ ResetSucceeded(out)
             \/ out.resp = InvalidOrExpired /\ TrimSpace(out.in.token) \in consumed)
    /\ [][ /\ ResetSucceeded(out') =>
                /\ TrimSpace(out'.in.token) \notin consumed
                /\ \E p \in Procs :
                      /\ Committing(p)
                      /\ users'[proc[p].loc.uid].hash = proc[p].loc.hash
           /\ out'.op = "reset" /\ ~ResetSucceeded(out') =>
                /\ users' = users /\ resets' = resets /\ sessions' = sessions ]_vars

\* C2 witness: a call that began with a valid, unexpired token lost the race
\* and was answered 400.
C2_Witness ==
    /\ out.op = "reset" /\ out.g.found /\ out.g.live
    /\ out.resp = InvalidOrExpired

\* C3: a reset token is single-use.  A reset request whose token was consumed
\* before the request began is answered 400 and changes no password hash;
\* the error is "invalid or expired token" whenever the request passes the
\* handler's input checks (a new password under 8 characters is refused
\* before the token is looked at, with 400 "password too short").
C3_SingleUse ==
    /\ [](out.op = "reset" /\ out.g.used =>
            /\ out.resp.status = StatusBadRequest
            /\ Len(out.in.password) >= minPasswordLength => out.resp = InvalidOrExpired)
    /\ [][out'.op = "reset" /\ out'.g.used =>
            /\ users' = users /\ resets' = resets]_vars

\* C3 witness: a request reuses a consumed token with a well-formed body.
C3_Witness ==
    /\ out.op = "reset" /\ out.g.used
    /\ Len(out.in.password) >= minPasswordLength
    /\ out.resp = InvalidOrExpired

\* ------------------------------------------------------ properties: sessions

Unauthorized == writeError(StatusUnauthorized, "unauthorized")

\* C4: for GET /users/me and PUT /users/me, a request whose header carries an
\* issued session token, looked up strictly before the session's expires_at,
\* resolves to the session's user (it is not answered 401, and the user in a
\* 200 answer is the session's owner); at or after expires_at, and with a
\* token never issued, no header, another scheme or no token, the answer is
\* the one response 401 "unauthorized".
C4_SessionUntilExpiry ==
    out.op \in {"profile", "update"} =>
        IF out.g.found /\ out.g.live
        THEN /\ out.resp.status # StatusUnauthorized
             /\ out.resp.status = StatusOK => out.resp.body.user.id = out.g.owner
             /\ out.op = "profile" => out.resp.status = StatusOK
        ELSE out.resp = Unauthorized

\* C4 witness: a session token is refused at the very minute it expires.
C4_Witness ==
    /\ out.op = "profile" /\ out.resp = Unauthorized
    /\ \E s \in sessions : BearerToken(out.in.header) = s.token /\ s.expires = now

\* ------------------------------------------- properties: login and forgot

\* The email as the handlers compare it: trimmed and lower-cased.
Canonical(email) == ToLower(TrimSpace(email))

WellFormed(email) == Canonical(email) # <<>> /\ Contains(Canonical(email), "@")

Registered(email) == \E i \in UserIds : users[i].email = Canonical(email)

\* C5: a login with a well-formed email that has no user, and a login with a
\* registered email and a password that is not the user's, get the same
\* response: 401 with the body {"error": "invalid credentials"}.
C5_LoginMasksEmail ==
    out.op = "login" /\ WellFormed(out.in.email)
        /\ (\A i \in UserIds : users[i].email = Canonical(out.in.email)
                => users[i].hash.pw # out.in.password)
      => out.resp = writeError(StatusUnauthorized, "invalid credentials")

\* C5 witness: a registered email was sent with a wrong password.
C5_Witness ==
    /\ out.op = "login" /\ Registered(out.in.email)
    /\ out.resp = writeError(StatusUnauthorized, "invalid credentials")

\* C6 (as stated): forgot-password answers a well-formed email with the same
\* response, the generic 200 message, whether or not the email is registered.
C6_ForgotMasksEmail ==
    out.op = "forgot" /\ WellFormed(out.in.email)
      => out.resp = writeJSON(StatusOK,
             MessageBody("if the account exists, a reset token was generated"))

\* C7: forgot-password creates a reset row exactly when the email is
\* registered.  A request answered for an unregistered or malformed email
\* changes no table; one answered for a registered email adds exactly one
\* row, owned by that user, expiring 30 minutes after the insert, carrying
\* the token returned, and changes nothing else; rows appear in no other way.
C7_ForgotCreatesRow ==
    [][ /\ out'.op = "forgot" =>
              IF Registered(out'.in.email)
              THEN \E r \in resets' \ resets :
                      /\ resets' = resets \cup {r}
                      /\ users[r.user].email = Canonical(out'.in.email)
                      /\ r.expires = now + resetTTL
                      /\ out'.resp.body.token = r.token
                      /\ \A q \in sessions \cup resets : q.token # r.token
                      /\ users' = users /\ sessions' = sessions
              ELSE users' = users /\ sessions' = sessions /\ resets' = resets
        /\ out'.op # "forgot" => resets' \subseteq resets ]_vars

\* C7 witness: a second token has been issued to a user who holds one.
C7_Witness ==
    /\ out.op = "forgot" /\ out.resp.body.token # <<>>
    /\ \E r1, r2 \in resets : r1 # r2 /\ r1.user = r2.user /\ r2.token = out.resp.body.token

\* ------------------------------------------------- properties: registration

IsNormal(email) ==
    /\ email # <<>>
    /\ ~IsSpace(email[1]) /\ ~IsSpace(email[Len(email)])
    /\ \A i \in 1..Len(email) : email[i] \notin {"A", "B", "C", "D"}

EmailExists == writeError(StatusConflict, "email already exists")

\* C8: a registration answered 201 stores the trimmed, lower-cased form of
\* the email submitted; a registration (with a name and a password that pass
\* the checks) whose email normalizes to a stored email is answered 409
\* "email already exists", and no registration that meets a stored email
\* creates a user.
C8_RegisterNormalizes ==
    [][ out'.op = "register" =>
          /\ out'.resp.status = StatusCreated =>
                /\ Len(users') = Len(users) + 1
                /\ SubSeq(users', 1, Len(users)) = users
                /\ users'[Len(users')].email = Canonical(out'.in.email)
                /\ IsNormal(users'[Len(users')].email)
          /\ Registered(out'.in.email) =>
                /\ users' = users
                /\ (TrimSpace(out'.in.name) # <<>>
                      /\ Len(out'.in.password) >= minPasswordLength)
                    => out'.resp = EmailExists ]_vars

\* C8 witness: a registration is refused whose email differs from the stored
\* one in case and surrounding blanks only.
C8_Witness ==
    /\ out.op = "register" /\ out.resp = EmailExists
    /\ \E i \in UserIds :
          users[i].email = Canonical(out.in.email) /\ users[i].email # out.in.email

\* C9: no two users hold the same email compared case-insensitively, and
\* every stored email is trimmed and lower-cased.
C9_EmailsUnique ==
    /\ \A i, j \in UserIds : i # j => ToLower(users[i].email) # ToLower(users[j].email)
    /\ \A i \in UserIds : IsNormal(users[i].email)

\* C9 witness: with two users stored, a profile update asking for the other
\* user's email in another spelling has been refused.
C9_Witness ==
    /\ Len(users) = 2
    /\ out.op = "update" /\ out.resp = EmailExists
    /\ out.in.email \notin {users[i].email : i \in UserIds}

\* C10: of the registrations in flight for one normalized email exactly one
\* creates a user.  A registration that reaches the store is answered 201 and
\* adds one user if no stored email equals its normalized email, and is
\* answered 409 "email already exists", adding nothing, if one does: never
\* 500, and never a second user with the email.
C10_RegisterRace ==
    /\ [](\A i, j \in UserIds : users[i].email = users[j].email => i = j)
    /\ [](out.op = "register" =>
            out.resp.status \in {StatusCreated, StatusBadRequest, StatusConflict})
    /\ [][ \A p \in Procs :
             proc[p].op = "register" /\ proc'[p] = Idle =>
                IF Registered(proc[p].in.email)
                THEN out'.resp = EmailExists /\ users' = users
                ELSE /\ out'.resp.status = StatusCreated
                     /\ Len(users') = Len(users) + 1 ]_vars

\* C10 witness: a registration that found its email free when it began has
\* lost the race to a concurrent one and is answered 409.
C10_Witness ==
    /\ out.op = "register" /\ out.resp = EmailExists /\ ~out.g.found

\* ------------------------------------------------- properties: validation

\* The three checks of a registration, on the request as sent.
RegisterChecksPass(req) ==
    /\ WellFormed(req.email)
    /\ TrimSpace(req.name) # <<>>
    /\ Len(req.password) >= minPasswordLength

\* C11: a registration whose normalized email is empty or lacks '@', whose
\* trimmed name is empty or whose password has fewer than 8 bytes is answered
\* 400 and leaves the user table as it was; the user table changes only in
\* the answer to a registration that passes the three checks.
C11_RegisterValidates ==
    [][ /\ out'.op = "register" /\ ~RegisterChecksPass(out'.in)
            => out'.resp.status = StatusBadRequest /\ users' = users
        /\ users' # users
            => /\ out'.op = "register" /\ RegisterChecksPass(out'.in)
               /\ out'.resp.status = StatusCreated ]_vars

\* C11 witness: with a user stored, a registration with a new well-formed
\* email and a name is refused for its short password alone.
C11_Witness ==
    /\ users # <<>>
    /\ out.op = "register" /\ out.resp.status = StatusBadRequest
    /\ WellFormed(out.in.email) /\ ~Registered(out.in.email)
    /\ TrimSpace(out.in.name) # <<>>
    /\ Len(out.in.password) < minPasswordLength

\* The two checks of a password reset, on the request as sent.
ResetChecksPass(req) ==
    TrimSpace(req.token) # <<>> /\ Len(req.password) >= minPasswordLength

\* The lookup of slot p's transaction, about to run, meets no reset row with
\* the token, or one that had expired when the transaction began.
UnknownOrExpired(p) ==
    /\ proc[p].op = "reset" /\ proc[p].pc = "Select"
    /\ \A r \in resets :
          r.token = TrimSpace(proc[p].in.token) => proc[p].loc.txStart >= r.expires

\* C12: a password reset whose trimmed token is empty, whose new password
\* has fewer than 8 bytes, or whose token names no reset row or an expired
\* one is answered 400, not 500, and changes no user and no reset row; no
\* transaction of ConsumePasswordReset runs for a request that fails one of
\* the two input checks.
C12_ResetRejects ==
    [][ /\ out'.op = "reset" /\ ~ResetChecksPass(out'.in)
            => /\ out'.resp.status = StatusBadRequest
               /\ users' = users /\ resets' = resets
        /\ \A p \in Procs :
              /\ UnknownOrExpired(p) /\ proc'[p] # proc[p]
                    => /\ out'.op = "reset" /\ out'.in = proc[p].in
                       /\ out'.resp.status = StatusBadRequest
                       /\ users' = users /\ resets' = resets
              /\ proc'[p].op = "reset" => ResetChecksPass(proc'[p].in) ]_vars

\* C12 witness: while a reset token is on offer, a request with a token that
\* was never issued and a long enough password is answered 400.
C12_Witness ==
    /\ resets # {}
    /\ out.op = "reset" /\ out.resp.status = StatusBadRequest
    /\ ResetChecksPass(out.in)
    /\ ~out.g.found /\ ~out.g.used

\* ------------------------------------------- properties: storage failures

\* C13 (as stated): whenever a statement of a request fails in the storage,
\* with an error that is neither no-rows nor a uniqueness violation, the
\* request is answered 500; also when the failing statement is the lookup of
\* the session of GET /users/me or PUT /users/me.
C13_StorageFailureIs500 ==
    out.g.failed => out.resp.status = StatusInternalServerError

\* ------------------------------------------------------ properties: profile

\* The request answered in this step is a PUT /users/me whose session
\* resolved.
UpdateAnswered == out'.op = "update" /\ out'.g.found /\ out'.g.live

\* The checks of a profile update, on the request as sent.
UpdateChecksPass(req) ==
    /\ req.hasEmail \/ req.hasName
    /\ req.hasEmail => WellFormed(req.email)
    /\ req.hasName => TrimSpace(req.name) # <<>>

\* C14: an authenticated PUT /users/me that supplies neither field, an email
\* that is empty or lacks '@' once normalized, or a name that is empty once
\* trimmed is answered 400 and no user changes; otherwise, with an email that
\* normalizes to another user's email it is answered 409 and no user
\* changes; otherwise it is answered 200 and the user's row holds the
\* normalized email and the trimmed name supplied.
C14_UpdateValidates ==
    [][ UpdateAnswered =>
          LET req == out'.in
              uid == out'.g.owner
          IN  IF ~UpdateChecksPass(req)
              THEN out'.resp.status = StatusBadRequest /\ users' = users
              ELSE IF req.hasEmail
                      /\ \E i \in UserIds :
                            i # uid /\ users[i].email = Canonical(req.email)
              THEN out'.resp = EmailExists /\ users' = users
              ELSE /\ out'.resp.status = StatusOK
                   /\ req.hasEmail => users'[uid].email = Canonical(req.email)
                   /\ req.hasName => users'[uid].name = TrimSpace(req.name)
                   /\ out'.resp.body.user = UserJSON(uid, users'[uid]) ]_vars

\* C14 witness: an update of both fields was stored in normal form, which is
\* not the form sent.
C14_Witness ==
    /\ out.op = "update" /\ out.resp.status = StatusOK
    /\ out.in.hasEmail /\ out.in.hasName
    /\ users[out.g.owner].email = Canonical(out.in.email)
    /\ users[out.g.owner].email # out.in.email
    /\ users[out.g.owner].name = TrimSpace(out.in.name)
    /\ users[out.g.owner].name # out.in.name

\* C15: a PUT /users/me answered 200 changes nothing but the fields
\* supplied: an email not supplied and a name not supplied stay, and so do
\* the user's id and password hash, every other user, the sessions and the
\* reset tokens.
C15_UpdateFrame ==
    [][ UpdateAnswered /\ out'.resp.status = StatusOK =>
          LET req == out'.in
              uid == out'.g.owner
          IN  /\ Len(users') = Len(users)
              /\ \A i \in UserIds : i # uid => users'[i] = users[i]
              /\ users'[uid].hash = users[uid].hash
              /\ ~req.hasEmail => users'[uid].email = users[uid].email
              /\ ~req.hasName => users'[uid].name = users[uid].name
              /\ out'.resp.body.user.id = uid
              /\ sessions' = sessions /\ resets' = resets ]_vars

\* C15 witness: with two users stored, the second one has changed the name
\* alone and still has the email registered.
C15_Witness ==
    /\ Len(users) = 2
    /\ out.op = "update" /\ out.resp.status = StatusOK /\ out.g.owner = 2
    /\ out.in.hasName /\ ~out.in.hasEmail
    /\ out.resp.body.user.name = TrimSpace(out.in.name)
    /\ out.resp.body.user.email = users[2].email /\ users[2].email # <<>>

\* --------------------------------------------- properties: login and reset

\* This step is the password check of a login with the request req, and the
\* check passes: the request goes on to create its session ...
LoginAccepted(req) ==
    \E p \in Procs : proc[p].op = "idle" /\ proc'[p].op = "login" /\ proc'[p].in = req

\* ... or it fails: the request is answered 401.
LoginRefused(req) ==
    /\ out'.op = "login" /\ out'.in = req /\ proc' = proc
    /\ out'.resp = writeError(StatusUnauthorized, "invalid credentials")

\* C16: for a registered user, a login checked before any password reset
\* has succeeded passes with the password registered and is answered 401 with
\* the password a reset would set; once a reset has succeeded it is the
\* reverse: the old password is answered 401 and the new one passes.  A login
\* whose password passed is answered 200 with a session that is stored.
C16_ResetSwitchesPassword ==
    [][ /\ \A req \in RecoverLoginRequest :
              users # <<>> /\ (LoginAccepted(req) \/ (out'.op = "login" /\ out'.in = req /\ proc' = proc))
                => IF (consumed = {}) <=> (req.password = oldPassword)
                   THEN LoginAccepted(req)
                   ELSE LoginRefused(req)
        /\ \A p \in Procs :
              proc[p].op = "login" /\ proc'[p] = Idle
                => /\ out'.resp.status = StatusOK
                   /\ out'.resp.body.user.id = 1
                   /\ \E s \in sessions' :
                         s.token = out'.resp.body.token /\ s.user = 1 ]_vars

\* C16 witness: after a reset has succeeded, a login with the old password
\* has been answered 401.
C16_Witness ==
    /\ consumed # {}
    /\ out.op = "login" /\ out.in.password = oldPassword
    /\ out.resp = writeError(StatusUnauthorized, "invalid credentials")
    /\ users[1].hash.pw = newPassword

\* C17: a login creates a session exactly when its email resolves to a user
\* and its password verifies against that user's hash.  The answer is then
\* 200 and exactly one session is added: its owner is that user, it expires
\* 24 hours after the login, its token is the one in the response and
\* resolves to the same user at once.  A login answered 400 or 401 adds no
\* session, and sessions are added in no other way.
C17_LoginCreatesSession ==
    [][ /\ out'.op = "login" =>
              /\ out'.resp.status = StatusOK <=> out'.g.found /\ out'.g.live
              /\ out'.resp.status \in {StatusOK, StatusBadRequest, StatusUnauthorized}
              /\ out'.resp.status = StatusOK =>
                    \E s \in sessions' \ sessions :
                       /\ sessions' = sessions \cup {s}
                       /\ s.user = out'.g.owner
                       /\ users[s.user].email = Canonical(out'.in.email)
                       /\ verifyPassword(users[s.user].hash, out'.in.password)
                       /\ s.expires = now + sessionTTL
                       /\ s.token = out'.resp.body.token
                       /\ out'.resp.body.expires_at = s.expires
                       /\ out'.resp.body.user.id = s.user
                       /\ authenticate(Bearer \o s.token, now, FALSE)'
                             = [err |-> NoErr, uid |-> s.user]
              /\ out'.resp.status # StatusOK => sessions' = sessions
        /\ out'.op # "login" => sessions' = sessions ]_vars

\* C17 witness: some time after a first login, a second one has been
\* answered with a new session, which expires 24 hours from now.
C17_Witness ==
    /\ now > 0 /\ Cardinality(sessions) = 2
    /\ out.op = "login" /\ out.resp.status = StatusOK
    /\ \E s \in sessions :
          s.token = out.resp.body.token /\ s.expires = now + sessionTTL

\* ----------------------------------------- properties: expiry and rollback

\* The lookup of slot p's transaction, about to run, meets a reset row with
\* the token that had expired when the transaction began ...
ExpiredToken(p) ==
    /\ proc[p].op = "reset" /\ proc[p].pc = "Select"
    /\ \E r \in resets : r.token = proc[p].loc.token
    /\ \A r \in resets :
          r.token = proc[p].loc.token => proc[p].loc.txStart >= r.expires

\* ... or no reset row with the token at all.
MissingToken(p) ==
    /\ proc[p].op = "reset" /\ proc[p].pc = "Select"
    /\ \A r \in resets : r.token # proc[p].loc.token

\* C18: ConsumePasswordReset with a token whose row has expired (the
\* transaction begins at or after expires_at) does what it does with a token
\* that has no row: it fails with not-found, which the handler answers 400
\* "invalid or expired token", no password hash changes and the reset table
\* is as before, the expired row still in it.
C18_ExpiredIsMissing ==
    [][ \A p \in Procs :
          (ExpiredToken(p) \/ MissingToken(p)) /\ proc'[p] # proc[p]
            => /\ proc'[p] = Idle
               /\ out'.op = "reset" /\ out'.in = proc[p].in
               /\ out'.resp = InvalidOrExpired
               /\ users' = users /\ resets' = resets /\ consumed' = consumed ]_vars

\* C18 witness: a reset was refused in the very minute its token expired,
\* and the token's row is still stored.
C18_Witness ==
    /\ out.op = "reset" /\ out.resp = InvalidOrExpired
    /\ \E r \in resets : r.token = TrimSpace(out.in.token) /\ r.expires = now
    /\ out.g.found /\ ~out.g.live

\* The transaction of slot p, past its lookup, ends in this step without
\* committing.
RolledBack(p) ==
    /\ proc[p].op = "reset" /\ proc[p].pc \in {"Update", "Delete", "Commit"}
    /\ proc'[p] = Idle
    /\ ~ResetSucceeded(out')

\* C19: when a statement of ConsumePasswordReset after the lookup fails (the
\* UPDATE, the DELETE, the commit; the storage or the request's deadline),
\* the transaction leaves nothing behind: every table is as before the call,
\* the token's row still stored, the locks of the row and of the user are
\* released, and the request is answered 500.  So the row of a token whose
\* transaction was rolled back stays until a transaction consumes it, and a
\* later request that begins while it is unexpired succeeds unless another
\* one consumed it.
C19_RollbackOnFailure ==
    /\ [][ \A p \in Procs :
             RolledBack(p) =>
                /\ out'.op = "reset" /\ out'.in = proc[p].in
                /\ out'.resp = ResetFailed
                /\ users' = users /\ resets' = resets /\ sessions' = sessions
                /\ \E r \in resets' :
                      r.token = proc[p].loc.token /\ r.user = proc[p].loc.uid
                /\ ~HoldsReset(p, proc[p].loc.token)'
                /\ ~HoldsUser(p, proc[p].loc.uid)'
                /\ proc[p].loc.token \in aborted' ]_vars
    /\ [](\A token \in aborted \ consumed : \E r \in resets : r.token = token)
    /\ [](out.op = "reset" /\ out.g.found /\ out.g.live /\ ~out.g.failed
            => \/ ResetSucceeded(out)
               \/ out.resp = InvalidOrExpired /\ TrimSpace(out.in.token) \in consumed)

\* C19 witness: a reset has succeeded with a token whose earlier transaction
\* had failed and was rolled back.
C19_Witness ==
    /\ ResetSucceeded(out)
    /\ TrimSpace(out.in.token) \in aborted
    /\ users[1].hash.pw = newPassword

\* ------------------------------------------------------ properties: hasher

\* C20 (as stated): verifyPassword(hashPassword(p), p) succeeds for every
\* password p that hashPassword accepts, and verifyPassword(hashPassword(p),
\* p2) fails for every p2 other than p.  The hash is the one stored at
\* registration and verifyPassword decides the login: a login to a
\* registered account is answered 200 exactly when its password is the one
\* the stored hash was made from.
C20_HasherExact ==
    out.op = "login" /\ out.g.found =>
        (out.resp.status = StatusOK
            <=> out.in.password = users[out.g.owner].hash.pw)

\* ---------------------------------------------------- properties: responses

\* The members encoding/json may write for a user.
PublicUserFields == {"id", "email", "name"}

\* C21: no response of the user service (register, login, GET and PUT
\* /users/me, forgot, reset, and every error response) contains a user's
\* password hash: the user object of a response has the public members only,
\* and the other members of a body are the error, the message, the token and
\* its expiry.
C21_NoHashInResponse ==
    /\ DOMAIN out.resp.body.user \subseteq PublicUserFields
    /\ out.resp.body.keys \subseteq
          PublicUserFields \cup
              {"error", "message", "user", "session", "token", "expires_at"}

\* C21 witness: a login has answered with the user object of an account that
\* has a password hash stored.
C21_Witness ==
    /\ out.op = "login"
    /\ out.resp.status = StatusOK
    /\ out.resp.body.user.id \in DOMAIN users
    /\ users[out.resp.body.user.id].hash # NoHash
    /\ out.resp.body.user.email = users[out.resp.body.user.id].email

\* ----------------------------------------------- properties: request bodies

\* Exactly one JSON value of the expected object shape.
SingleObject(body, dst) ==
    /\ Len(body) = 1
    /\ body[1].kind = "object"
    /\ body[1].names \subseteq dst.fields

\* The bodies the claim lists: an unrecognized field, trailing content after
\* the first value, or malformed.  (A body of null alone stores nothing and
\* goes on to the validation.)
NotSingleObject(body, dst) == ~SingleObject(body, dst) /\ body # <<JSONNull>>

DecodeMessages ==
    {"EOF", "invalid character", "json: cannot unmarshal", "json: unknown field",
     "body must contain a single JSON object"}

\* The step answered 400 with the decoder's message under "error", no
\* statement of the store is pending and nothing stored has changed.
RejectedBody ==
    /\ out'.resp.status = StatusBadRequest
    /\ out'.resp.body.keys = {"error"}
    /\ out'.resp.body.error \in DecodeMessages
    /\ proc'["p1"] = Idle
    /\ UNCHANGED <<users, sessions, resets>>

\* The four endpoints that take a body without a session.
PostBodiesRejected ==
    /\ \A body \in DecodeRegisterBodies :
          NotSingleObject(body, RegisterRequestType)
              /\ handleRegisterBody("p1", body, "s0") => RejectedBody
    /\ \A body \in DecodeLoginBodies :
          NotSingleObject(body, LoginRequestType)
              /\ handleLoginBody("p1", body, FALSE) => RejectedBody
    /\ \A body \in DecodeForgotBodies :
          NotSingleObject(body, ForgotPasswordRequestType)
              /\ handleForgotPasswordBody("p1", body, FALSE) => RejectedBody
    /\ \A body \in DecodeResetBodies :
          NotSingleObject(body, ResetPasswordRequestType)
              /\ handleResetPasswordBody("p1", body, "s1", FALSE) => RejectedBody

\* C22 (as stated): for every body-carrying endpoint, a request body that is
\* not exactly one JSON value of the expected object shape (unrecognized
\* field, trailing content, malformed) is answered 400 with an {"error": ...}
\* body before any validation or store access, so no state changes.
C22_BadBodyIs400 ==
    [][/\ PostBodiesRejected
       /\ \A header \in DecodeHeaders, body \in DecodeUpdateBodies :
             NotSingleObject(body, UpdateProfileRequestType)
                 /\ handleUpdateProfileBody("p1", header, body, FALSE)
                     => RejectedBody]_vars

\* C22 (amended): the same for POST register, login, forgot and reset; PUT
\* /users/me looks the session up first, and answers such a body 400 when the
\* bearer token resolves to a live session and 401 otherwise; no state
\* changes in either case.
C22_BadBodyIs400AfterSession ==
    [][/\ PostBodiesRejected
       /\ \A header \in DecodeHeaders, body \in DecodeUpdateBodies :
             NotSingleObject(body, UpdateProfileRequestType)
                 /\ handleUpdateProfileBody("p1", header, body, FALSE)
                     => IF authenticate(header, now, FALSE).err = NoErr
                        THEN RejectedBody
                        ELSE /\ out'.resp = writeError(StatusUnauthorized, "unauthorized")
                             /\ proc'["p1"] = Idle
                             /\ UNCHANGED <<users, sessions, resets>>]_vars

\* C22 witness: PUT /users/me with a live session and a body of two objects
\* has been answered 400 with the decoder's message.
C22_Witness ==
    /\ out.op = "update"
    /\ out.g.found /\ out.g.live
    /\ out.resp = writeError(StatusBadRequest, "body must contain a single JSON object")

\* ------------------------------------- properties: handlePracticeConcurrency

\* C23: GET /practice/concurrency returns the quotes in the order of the input
\* orders (quotes[i] is the quote computed from orders[i]) and workers = the
\* number of orders, for every interleaving and completion order of the
\* workers; no quote slot is left unfilled or written twice.
C23_QuotesInOrder ==
    /\ \A k \in 1..Len(orders) : conc.writes[k] <= 1
    /\ conc.resp.status = StatusOK =>
          /\ conc.resp.quotes = [k \in 1..Len(orders) |-> Quote(orders[k])]
          /\ conc.resp.workers = Len(orders)
          /\ conc.pc = "idle" => \A k \in 1..Len(orders) : conc.writes[k] = 1

\* C23 witness: the response has been written after the results arrived in
\* another order than the orders' (the last order's first).
C23_Witness ==
    /\ conc.pc = "idle"
    /\ conc.resp.status = StatusOK
    /\ Len(conc.received) = Len(orders)
    /\ conc.received[1] = Len(orders)
    /\ conc.resp.quotes[1].order_id = "ORD-1001"

\* No goroutine of the request has panicked.
NoPanic ==
    /\ conc.closer # "panic"
    /\ \A k \in 1..Len(orders) : conc.worker[k] # "panic"

\* C24: handlePracticeConcurrency always terminates without deadlock or
\* panic: no worker blocks on its send (a worker that has not sent finds room
\* in the buffer), the channel is closed once at most and only after every
\* worker has sent, no send happens on a closed channel, the collecting loop
\* has received one result per order when it ends, and every request that
\* was begun is answered.
C24_Terminates ==
    /\ [](NoPanic)
    /\ [](\A k \in 1..Len(orders) :
              conc.worker[k] = "run" => ~conc.closed /\ Len(conc.results) < Capacity)
    /\ [](conc.closes <= 1)
    /\ [](conc.closed => \A k \in 1..Len(orders) : conc.worker[k] = "exit")
    /\ [](conc.resp.status = StatusOK =>
              /\ conc.closes = 1
              /\ Len(conc.received) = Len(orders)
              /\ \A k \in 1..Len(orders) : \E n \in 1..Len(orders) : conc.received[n] = k)
    /\ (conc.pc # "idle" ~> conc.pc = "idle" /\ conc.resp.status = StatusOK)

\* C24 witness: a request has ended: every worker has left, the channel is
\* closed and drained, the response is written.
C24_Witness ==
    /\ conc.pc = "idle"
    /\ conc.resp.status = StatusOK
    /\ conc.closed /\ conc.closer = "exit" /\ conc.results = <<>>
    /\ \A k \in 1..Len(orders) : conc.worker[k] = "exit"

\* ------------------------------------------ properties: sessions and resets

\* Slot p takes a step of handleResetPassword or ConsumePasswordReset.
ResetStep(p) ==
    /\ proc'[p] # proc[p]
    /\ proc[p].op = "reset" \/ proc'[p].op = "reset" \/ out'.op = "reset"

\* C25: a successful password reset does not revoke sessions: no step of
\* ConsumePasswordReset changes the session table, and once a password reset
\* has succeeded, a session token that is stored and has not expired still
\* resolves to its user (GET /users/me: 200 with that user).
C25_ResetKeepsSessions ==
    /\ [][\A p \in Procs : ResetStep(p) => sessions' = sessions]_vars
    /\ [](consumed # {} /\ out.op = "profile" /\ out.g.found /\ out.g.live =>
              /\ out.resp.status = StatusOK
              /\ out.resp.body.user.id = out.g.owner)

\* C25 witness: a session issued before the reset has resolved to its user
\* after the reset, under the new password hash.
C25_Witness ==
    /\ consumed # {}
    /\ out.op = "profile"
    /\ out.resp.status = StatusOK
    /\ out.g.owner \in DOMAIN users
    /\ users[out.g.owner].hash.pw = newPassword
    /\ \E s \in sessions : s.user = out.g.owner /\ BearerToken(out.in.header) = s.token

\* ------------------------------------------- properties: several reset tokens

\* The request answered in this step came with a token whose row was stored
\* and unexpired when it began, and which no transaction had consumed.
OutstandingToken ==
    /\ out'.op = "reset"
    /\ out'.g.found /\ out'.g.live
    /\ TrimSpace(out'.in.token) \notin consumed

\* C26: a user may hold several outstanding reset tokens at once: a forgot-
\* password request removes no token, the commit of a consumption deletes the
\* row of its own token and no other, and every other unexpired token of the
\* user stays consumable: a reset with it succeeds and sets the password it
\* asks for.
C26_TokensIndependent ==
    [][ /\ out'.op = "forgot" => resets \subseteq resets'
        /\ \A p \in Procs :
              Committing(p) =>
                  resets' = {r \in resets : r.token # proc[p].loc.token}
        /\ OutstandingToken =>
              /\ ResetSucceeded(out')
              /\ users'[out'.g.owner].hash.pw = out'.in.password ]_vars

\* C26 witness: a second token of the same user has been consumed after the
\* first, and the password is the one the second reset asked for.
C26_Witness ==
    /\ ResetSucceeded(out)
    /\ out.g.found /\ out.g.live
    /\ Cardinality(consumed) >= 2
    /\ TrimSpace(out.in.token) \in consumed
    /\ users[out.g.owner].hash.pw = out.in.password
    /\ out.in.password = thirdPassword

\* C27: when two ConsumePasswordReset calls with two different valid tokens
\* of the same user run concurrently, both calls end, and end successfully,
\* in every interleaving; both token rows are deleted; and the user's
\* password hash is the new hash of the call that committed last: each commit
\* leaves its own hash, and the hash changes in no other step.
C27_ConcurrentResets ==
    /\ \A p \in Procs : (proc[p].op = "reset" ~> proc[p].op # "reset")
    /\ [][ /\ OutstandingToken => ResetSucceeded(out')
           /\ \A p \in Procs :
                 Committing(p) => users'[proc[p].loc.uid].hash = proc[p].loc.hash
           /\ (\A p \in Procs : ~Committing(p)) =>
                 \A i \in UserIds : users'[i].hash = users[i].hash ]_vars
    /\ [](\A r \in resets : r.token \notin consumed)

\* C27 witness: one of two concurrent calls has just committed while the
\* other, holding another token of the same user, waits for the user's row;
\* the hash is the committed call's.
C27_Witness ==
    /\ ResetSucceeded(out)
    /\ out.g.found /\ out.g.live
    /\ \E p \in Procs :
          /\ proc[p].op = "reset" /\ proc[p].pc = "Update"
          /\ proc[p].loc.token # TrimSpace(out.in.token)
          /\ proc[p].loc.uid = out.g.owner
          /\ proc[p].loc.hash.pw # out.in.password
          /\ users[out.g.owner].hash.pw = out.in.password

\* ------------------------------------------------------- properties: todos

\* C28: PUT /todos/{id} changes only the fields supplied: with only done
\* given the title is unchanged, with only title given the done flag is
\* unchanged, and the stored title is the trimmed input; a body with neither
\* field, or with a title that is empty after trimming, is answered 400 with
\* the todo unchanged; a request with a field to set and an id with no todo
\* is answered 404 with no todo created; no other todo changes.  (Stated for
\* requests whose id is a number from 1 on, the storage not failing.)
C28_UpdateTodoFrame ==
    [][out'.op = "updateTodo" /\ ~out'.g.failed
          /\ ~readIDParam(out'.in.idParam).err =>
        LET input == out'.in
            id == readIDParam(input.idParam).id
            trimmed == TrimSpace(input.title)
        IN  IF (~input.hasTitle /\ ~input.hasDone) \/ (input.hasTitle /\ trimmed = <<>>)
            THEN out'.resp.status = StatusBadRequest /\ todos' = todos
            ELSE IF id \notin TodoIds
            THEN out'.resp.status = StatusNotFound /\ todos' = todos
            ELSE /\ out'.resp.status = StatusOK
                 /\ Len(todos') = Len(todos)
                 /\ \A other \in 1..Len(todos) : other # id => todos'[other] = todos[other]
                 /\ todos'[id].live
                 /\ todos'[id].title = IF input.hasTitle THEN trimmed ELSE todos[id].title
                 /\ todos'[id].done = IF input.hasDone THEN input.done ELSE todos[id].done
                 /\ out'.resp.body.todo = TodoJSON(id, todos'[id]) ]_vars

\* C28 witness: an update that gave only a title, with blanks around it, has
\* been answered 200 for a todo that was done: the title stored is the
\* trimmed one and the todo is still done.
C28_Witness ==
    /\ out.op = "updateTodo"
    /\ out.resp.status = StatusOK
    /\ out.in.hasTitle /\ ~out.in.hasDone
    /\ out.in.title = <<" ", "b", " ">>
    /\ out.resp.body.todo.id \in TodoIds
    /\ todos[out.resp.body.todo.id] = TodoRow(<<"b">>, TRUE)

====
